---- MODULE Spec2Model ----
(***************************************************************************)
(* A model of the fact-verification core of jobbernaut-tailor:             *)
(* src/src/fact_extractor.py (FactExtractor) and src/src/fact_verifier.py  *)
(* (FactVerifier).                                                         *)
(*                                                                         *)
(* A Python str is a sequence of one-character strings, so that the        *)
(* regular expressions of the extractor are computed character by          *)
(* character.  Fixed fragments of the report texts are single symbols.     *)
(***************************************************************************)
EXTENDS Integers, Sequences, FiniteSets, TLC

VARIABLES
    \* ---- FactExtractor normalisation calls (specification SpecNorm)
    raw_name,        \* the name the caller holds
    norm_arg,        \* the argument of the last normalize_* call
    normalized,      \* the value the last normalize_* call returned
    norm_call,       \* which call was made last
    \* ---- FactVerifier (specification Spec)
    master_resume,   \* FactVerifier.master_resume
    master_facts,    \* FactVerifier.master_facts
    tailored_resume, \* the argument of the last verify_resume call
    tailored_facts,  \* the facts the last verify_resume call extracted from it
    result,          \* the VerificationResult of the last verify_resume call
    verify_calls,    \* number of verify_resume calls made so far
    feedback,        \* the text of the last format_hallucinations_for_retry call
    formatted,       \* TRUE once format_hallucinations_for_retry(result) returned
    \* ---- calls on records no schema validator has seen (specification SpecInput)
    unvalidated,     \* the Python value handed in
    operation,       \* the operation called on it
    raised,          \* the exception the call raised, "none" if it returned
    returned,        \* the value the call returned
    \* ---- callers sharing one FactVerifier (specification SpecCalls)
    frames,          \* per caller: the call it is in and the locals of that call
    lists,           \* the hallucination lists allocated, by owner
    \* ---- calls of parse_date (specification SpecDates)
    date_arg,        \* the argument of the last parse_date call
    parsed,          \* the pair the last parse_date call returned
    \* ---- verify_and_fix_latex_resume (specification SpecLatexFix)
    latex_fix_max_retries, \* ResumeOptimizationPipeline.latex_fix_max_retries
    fix_frame,       \* the locals of the verify_and_fix_latex_resume call and where it is
    \* ---- call_poe_api (specification SpecApi)
    api_frame,       \* the locals of the call_poe_api call, where it is and what it did
    \* ---- runs of the pipeline (specification SpecJobs)
    applications,    \* the list of jobs in applications.yaml, "null" for an empty file
    run_frame,       \* the locals of the run in progress or of the last run, and where it is
    runs,            \* number of runs started
    \* ---- ProgressTracker (specification SpecTracker)
    tracker_jobs,    \* ProgressTracker.jobs: the JobProgress of each registered job id
    tracker_call,    \* the last operation called on the tracker and its arguments
    tracker_calls    \* the number of operations called on the tracker

vars == << raw_name, norm_arg, normalized, norm_call,
           master_resume, master_facts, tailored_resume, tailored_facts, result,
           verify_calls, feedback, formatted,
           unvalidated, operation, raised, returned, frames, lists,
           date_arg, parsed,
           latex_fix_max_retries, fix_frame,
           api_frame,
           applications, run_frame, runs,
           tracker_jobs, tracker_call, tracker_calls >>

norm_vars == << raw_name, norm_arg, normalized, norm_call >>

verifier_vars == << master_resume, master_facts, tailored_resume, tailored_facts, result,
                    verify_calls, feedback, formatted >>

input_vars == << unvalidated, operation, raised, returned >>

calls_vars == << frames, lists >>

date_vars == << date_arg, parsed >>

latex_vars == << latex_fix_max_retries, fix_frame >>

api_vars == << api_frame >>

job_vars == << applications, run_frame, runs >>

tracker_vars == << tracker_jobs, tracker_call, tracker_calls >>

\* The variables of the specifications that follow the verifier's.
rest_vars == << date_vars, latex_vars, api_vars, job_vars, tracker_vars >>

\* No parse_date call was made.
DatesIdle == date_arg = <<>> /\ parsed = <<>>

\* No verify_and_fix_latex_resume call was made.
LatexFixIdle == latex_fix_max_retries = 0 /\ fix_frame = <<>>

\* No call_poe_api call was made.
ApiIdle == api_frame = <<>>

\* The pipeline was not run.
JobsIdle == applications = <<>> /\ run_frame = <<>> /\ runs = 0

\* No ProgressTracker was made.
TrackerIdle == tracker_jobs = <<>> /\ tracker_call = <<>> /\ tracker_calls = 0

RestIdle == DatesIdle /\ LatexFixIdle /\ ApiIdle /\ JobsIdle /\ TrackerIdle

-----------------------------------------------------------------------------
(* Bounds of the model.                                                    *)

\* A name handed to normalize_* is a concatenation of at most MaxPieces pieces.
MaxPieces == 3

\* A resume section that varies holds at most MaxEntries entries.
MaxEntries == 2

\* verify_resume is called at most MaxCalls times on one verifier.
MaxCalls == 2

\* At most MaxCallers callers share one verifier.
MaxCallers == 2

\* A string handed to parse_date is a concatenation of at most MaxDateParts
\* parts.
MaxDateParts == 2

\* latex_fix.max_retries is configured as at most MaxRetries.
MaxRetries == 3

\* call_poe_api is called with max_retries of at most MaxApiRetries.
MaxApiRetries == 3

\* applications.yaml lists at most MaxJobs jobs.
MaxJobs == 2

\* The pipeline is run at most MaxRuns times.
MaxRuns == 2

\* At most MaxTrackerCalls operations are called on one ProgressTracker.
MaxTrackerCalls == 5

-----------------------------------------------------------------------------
(* Python str primitives.                                                  *)

UpperLetters == <<"A","B","C","D","E","F","G","H","I","J","K","L","M","N","O","P","Q","R","S","T","U","V","W","X","Y","Z">>

LowerLetters == <<"a","b","c","d","e","f","g","h","i","j","k","l","m","n","o","p","q","r","s","t","u","v","w","x","y","z">>

Digits == {"0","1","2","3","4","5","6","7","8","9"}

Range(f) == { f[i] : i \in DOMAIN f }

SetMin(S) == CHOOSE x \in S : \A y \in S : x <= y

SetMax(S) == CHOOSE x \in S : \A y \in S : y <= x

\* str.isspace of one character (the characters strip() and \s take).
Whitespace == {" ", "\t", "\n", "\r"}

\* The class \w of a str pattern: letters, digits and the underscore.
IsWordChar(c) == c \in Range(UpperLetters) \cup Range(LowerLetters) \cup Digits \cup {"_"}

LowerChar(c) ==
    IF c \in Range(UpperLetters)
    THEN LowerLetters[CHOOSE i \in DOMAIN UpperLetters : UpperLetters[i] = c]
    ELSE c

UpperChar(c) ==
    IF c \in Range(LowerLetters)
    THEN UpperLetters[CHOOSE i \in DOMAIN LowerLetters : LowerLetters[i] = c]
    ELSE c

\* str.lower()
StrLower(s) == [i \in 1..Len(s) |-> LowerChar(s[i])]

\* str.upper()
StrUpper(s) == [i \in 1..Len(s) |-> UpperChar(s[i])]

\* str.strip()
StrStrip(s) ==
    LET keep == { i \in 1..Len(s) : s[i] \notin Whitespace }
    IN  IF keep = {} THEN <<>> ELSE SubSeq(s, SetMin(keep), SetMax(keep))

-----------------------------------------------------------------------------
(* The regular expressions of FactExtractor (module re).                   *)

\* \b between s[p] and s[p+1], p in 0..Len(s).
WordBoundary(s, p) ==
    LET before == p >= 1 /\ IsWordChar(s[p])
        after  == p < Len(s) /\ IsWordChar(s[p + 1])
    IN  before # after

\* The literal lit stands in s right after the first p characters.
LiteralAt(s, p, lit) ==
    /\ p + Len(lit) <= Len(s)
    /\ SubSeq(s, p + 1, p + Len(lit)) = lit

\* The alternative alt of \b(alt1|alt2|...)\b matches right after the first p
\* characters of s.
WordAltUnbounded(s, p, alt) == LiteralAt(s, p, alt)

WordAlt(s, p, alt) ==
    /\ LiteralAt(s, p, alt)
    /\ WordBoundary(s, p)
    /\ WordBoundary(s, p + Len(alt))

\* The optional \.? after a match that ends after the first e characters of s:
\* where the match ends with it.
OptionalDot(s, dot, e) ==
    IF dot /\ e < Len(s) /\ s[e + 1] = "." THEN e + 1 ELSE e

\* Length of the match of \b(alts)\b followed, with dot, by \.? right after the
\* first p characters of s; 0 when the pattern does not match there.  The
\* alternatives are tried in order and the first that matches is taken.
MatchLenOf(s, alts, dot, hits, p) ==
    IF hits = {} THEN 0
    ELSE OptionalDot(s, dot, p + Len(alts[SetMin(hits)])) - p

MatchLen(s, p, alts, dot) ==
    MatchLenOf(s, alts, dot, { k \in 1..Len(alts) : WordAlt(s, p, alts[k]) }, p)

\* re.sub(pattern, repl, s) for the pattern above, from offset p on: matches
\* are found left to right and do not overlap.
RECURSIVE ReSubFrom(_, _, _, _, _)
ReSubStep(s, p, alts, dot, repl, n) ==
    IF n > 0
    THEN repl \o ReSubFrom(s, p + n, alts, dot, repl)
    ELSE <<s[p + 1]>> \o ReSubFrom(s, p + 1, alts, dot, repl)

ReSubFrom(s, p, alts, dot, repl) ==
    IF p >= Len(s) THEN <<>>
    ELSE ReSubStep(s, p, alts, dot, repl, MatchLen(s, p, alts, dot))

ReSub(s, alts, dot, repl) == ReSubFrom(s, 0, alts, dot, repl)

\* The class [-_\s]
Separators == {"-", "_"} \cup Whitespace

\* re.sub(r'[-_\s]+', ' ', s): every maximal run of separators becomes one space.
RECURSIVE CollapseFrom(_, _)
CollapseFrom(s, i) ==
    IF i > Len(s) THEN <<>>
    ELSE IF s[i] \in Separators
         THEN (IF i > 1 /\ s[i - 1] \in Separators THEN <<>> ELSE <<" ">>)
              \o CollapseFrom(s, i + 1)
         ELSE <<s[i]>> \o CollapseFrom(s, i + 1)

CollapseSeparators(s) == CollapseFrom(s, 1)

-----------------------------------------------------------------------------
(* FactExtractor: normalisation.                                           *)

\* The alternatives of the company pattern, in the order of the pattern.
CompanySuffixes ==
    << <<"i","n","c">>, <<"l","l","c">>, <<"l","t","d">>, <<"c","o","r","p">>,
       <<"c","o","r","p","o","r","a","t","i","o","n">>,
       <<"c","o","m","p","a","n","y">>, <<"c","o">> >>

UncChapelHillLong ==
    <<"u","n","i","v","e","r","s","i","t","y"," ","o","f"," ","n","o","r","t","h"," ","c","a","r","o","l","i","n","a"," ","a","t"," ","c","h","a","p","e","l"," ","h","i","l","l">>

UncChapelHillShort == <<"u","n","c"," ","c","h","a","p","e","l"," ","h","i","l","l">>

UncLong ==
    <<"u","n","i","v","e","r","s","i","t","y"," ","o","f"," ","n","o","r","t","h"," ","c","a","r","o","l","i","n","a">>

UncShort == <<"u","n","c">>

\* The alternatives of the institution pattern, in the order of the pattern.
InstitutionWords ==
    << <<"u","n","i","v","e","r","s","i","t","y">>, <<"c","o","l","l","e","g","e">>,
       <<"i","n","s","t","i","t","u","t","e">>, <<"s","c","h","o","o","l">> >>

normalize_text_keeping_case(text) ==
    IF text = <<>> THEN <<>> ELSE StrStrip(text)

normalize_text(text) ==
    IF text = <<>> THEN <<>> ELSE StrStrip(StrLower(text))

normalize_company_name(company) ==
    StrStrip(
        CollapseSeparators(
            ReSub(normalize_text(company), CompanySuffixes, TRUE, <<>>)))

normalize_institution_name_stripping_first(institution) ==
    StrStrip(
        CollapseSeparators(
            ReSub(
                ReSub(
                    ReSub(normalize_text(institution), InstitutionWords, FALSE, <<>>),
                    <<UncChapelHillLong>>, FALSE, UncChapelHillShort),
                <<UncLong>>, FALSE, UncShort)))

normalize_institution_name(institution) ==
    StrStrip(
        CollapseSeparators(
            ReSub(
                ReSub(
                    ReSub(normalize_text(institution),
                          <<UncChapelHillLong>>, FALSE, UncChapelHillShort),
                    <<UncLong>>, FALSE, UncShort),
                InstitutionWords, FALSE, <<>>)))

\* int() of a run of decimal digits
DigitValue(c) ==
    CASE c = "0" -> 0 [] c = "1" -> 1 [] c = "2" -> 2 [] c = "3" -> 3 [] c = "4" -> 4
      [] c = "5" -> 5 [] c = "6" -> 6 [] c = "7" -> 7 [] c = "8" -> 8 [] c = "9" -> 9

RECURSIVE IntOf(_)
IntOf(digits) ==
    IF digits = <<>> THEN 0
    ELSE 10 * IntOf(SubSeq(digits, 1, Len(digits) - 1)) + DigitValue(digits[Len(digits)])

\* \d{n} matched at position p
DigitsAt(s, p, n) ==
    /\ p + n - 1 <= Len(s)
    /\ \A i \in p..(p + n - 1) : s[i] \in Digits

Present == <<"p","r","e","s","e","n","t">>

\* parse_date after date_str.strip()
ParseStripped(s) ==
    IF StrLower(s) = Present THEN << 9999, 12 >>
    ELSE IF DigitsAt(s, 1, 4) /\ Len(s) >= 5 /\ s[5] = "-" /\ DigitsAt(s, 6, 2)
         THEN << IntOf(SubSeq(s, 1, 4)), IntOf(SubSeq(s, 6, 7)) >>
    ELSE IF DigitsAt(s, 1, 4) THEN << IntOf(SubSeq(s, 1, 4)), 1 >>
    ELSE << 0, 0 >>

parse_date(date_str) ==
    IF date_str = <<>> THEN << 0, 0 >> ELSE ParseStripped(StrStrip(date_str))

-----------------------------------------------------------------------------
(* FactExtractor: extraction.  A mapping is a function on its keys, a list  *)
(* a sequence, a set a set.                                                *)

\* dict.get(key, default)
Get(d, key, default) == IF key \in DOMAIN d THEN d[key] ELSE default

\* str.split(','): the pieces between the commas, in order.
RECURSIVE SplitFrom(_, _, _)
SplitFrom(s, i, piece) ==
    IF i > Len(s) THEN <<piece>>
    ELSE IF s[i] = ","
         THEN <<piece>> \o SplitFrom(s, i + 1, <<>>)
         ELSE SplitFrom(s, i + 1, Append(piece, s[i]))

SplitComma(s) == SplitFrom(s, 1, <<>>)

\* The work facts as they would be if an entry without both dates were
\* skipped as a whole.
extract_work_experience_facts_of_dated_entries(work_exp) ==
    LET dated == { j \in Range(work_exp) : /\ Get(j, "start_date", <<>>) # <<>>
                                            /\ Get(j, "end_date", <<>>) # <<>> }
    IN  [ companies |->
            { normalize_company_name(Get(job, "company", <<>>)) :
                job \in { j \in dated : Get(j, "company", <<>>) # <<>> } },
          job_titles |->
            { normalize_text(Get(job, "job_title", <<>>)) :
                job \in { j \in dated : Get(j, "job_title", <<>>) # <<>> } },
          date_ranges |->
            { << normalize_company_name(Get(job, "company", <<>>)),
                 Get(job, "start_date", <<>>), Get(job, "end_date", <<>>) >> :
                job \in { j \in dated : Get(j, "company", <<>>) # <<>> } } ]

extract_work_experience_facts(work_exp) ==
    LET jobs == Range(work_exp)
        company(job)    == Get(job, "company", <<>>)
        job_title(job)  == Get(job, "job_title", <<>>)
        start_date(job) == Get(job, "start_date", <<>>)
        end_date(job)   == Get(job, "end_date", <<>>)
    IN  [ companies |->
            { normalize_company_name(company(job)) :
                job \in { j \in jobs : company(j) # <<>> } },
          job_titles |->
            { normalize_text(job_title(job)) :
                job \in { j \in jobs : job_title(j) # <<>> } },
          date_ranges |->
            { << normalize_company_name(company(job)), start_date(job), end_date(job) >> :
                job \in { j \in jobs : /\ company(j) # <<>>
                                       /\ start_date(j) # <<>>
                                       /\ end_date(j) # <<>> } } ]

extract_education_facts(education) ==
    LET entries == Range(education)
        institution(edu) == Get(edu, "institution", <<>>)
        degree(edu)      == Get(edu, "degree", <<>>)
        grad_date(edu)   == Get(edu, "graduation_date", <<>>)
    IN  [ institutions |->
            { normalize_institution_name(institution(edu)) :
                edu \in { e \in entries : institution(e) # <<>> } },
          degrees |->
            { normalize_text(degree(edu)) :
                edu \in { e \in entries : degree(e) # <<>> } },
          graduation_dates |->
            { << normalize_institution_name(institution(edu)), grad_date(edu) >> :
                edu \in { e \in entries : /\ institution(e) # <<>>
                                          /\ grad_date(e) # <<>> } } ]

\* The skills of one category's comma-separated string.
SkillsOfString(skills_str) ==
    IF skills_str = <<>> THEN {}
    ELSE LET skill_list == [ i \in DOMAIN SplitComma(skills_str) |->
                               StrStrip(SplitComma(skills_str)[i]) ]
         IN  { normalize_text(skill) : skill \in Range(skill_list) \ { <<>> } }

extract_skills(skills) ==
    UNION { SkillsOfString(skills[category]) : category \in DOMAIN skills }

extract_project_facts(projects) ==
    LET entries == Range(projects)
        project_name(project) == Get(project, "project_name", <<>>)
        tech_list(project)    == Get(project, "technologies", <<>>)
    IN  [ project_names |->
            { normalize_text(project_name(project)) :
                project \in { p \in entries : project_name(p) # <<>> } },
          technologies |->
            UNION { { normalize_text(tech) :
                        tech \in Range(tech_list(project)) \ { <<>> } } :
                    project \in entries } ]

\* What extract_all_facts would return if it gave up on a record that lacks one
\* of the four sections.
extract_all_facts_of_complete_records(resume) ==
    IF { "work_experience", "education", "skills", "projects" } \subseteq DOMAIN resume
    THEN extract_work_experience_facts(resume["work_experience"])
         @@ extract_education_facts(resume["education"])
         @@ [ skills |-> extract_skills(resume["skills"]) ]
         @@ extract_project_facts(resume["projects"])
    ELSE extract_work_experience_facts(<<>>) @@ extract_education_facts(<<>>)
         @@ [ skills |-> {} ] @@ extract_project_facts(<<>>)

\* The dictionary extract_all_facts returns holds the members of the four
\* results under their own names.
extract_all_facts(resume) ==
    extract_work_experience_facts(Get(resume, "work_experience", <<>>))
    @@ extract_education_facts(Get(resume, "education", <<>>))
    @@ [ skills |-> extract_skills(Get(resume, "skills", <<>>)) ]
    @@ extract_project_facts(Get(resume, "projects", <<>>))

-----------------------------------------------------------------------------
(* FactVerifier.                                                           *)

Hallucination(category, claimed_value, context, severity) ==
    [ category |-> category, claimed_value |-> claimed_value,
      context |-> context, severity |-> severity ]

\* The orders in which a for loop may enumerate a Python set: the order of a
\* set of str (or of tuples of str) follows the hashes of its members, which
\* change with the hash seed of the process.
Orders(S) ==
    { o \in [1..Cardinality(S) -> S] : \A x \in S : \E i \in DOMAIN o : o[i] = x }

\* What a loop that appends make(x) for each x of S, in the order o, appends.
Appended(o, make(_)) == [ i \in DOMAIN o |-> make(o[i]) ]

\* 1. Verify companies (CRITICAL)
company_hallucination_as_warning(company) ==
    Hallucination("company", company, <<"Work experience">>, "warning")

company_hallucination(company) ==
    Hallucination("company", company, <<"Work experience">>, "critical")

\* The company step as it would be if it held job titles against the master
\* as well.
invented_companies_or_titles(tailored, master) ==
    { company \in tailored.companies : company \notin master.companies }
    \cup { title \in tailored.job_titles : title \notin master.job_titles }

invented_companies(tailored, master) ==
    { company \in tailored.companies : company \notin master.companies }

\* 2. Verify institutions (CRITICAL)
institution_hallucination(institution) ==
    Hallucination("institution", institution, <<"Education">>, "critical")

invented_institutions(tailored, master) ==
    { institution \in tailored.institutions :
        institution \notin master.institutions }

\* 3. Verify skills (WARNING - subset allowed)
skill_hallucination_as_critical(skill) ==
    Hallucination("skill", skill, <<"Skills section">>, "critical")

skill_hallucination(skill) ==
    Hallucination("skill", skill, <<"Skills section">>, "warning")

invented_skills_both_ways(tailored, master) ==
    (tailored.skills \ master.skills) \cup (master.skills \ tailored.skills)

invented_skills(tailored, master) ==
    tailored.skills \ master.skills

\* 4. Verify project names (WARNING)
project_name_hallucination(project_name) ==
    Hallucination("project_name", project_name, <<"Projects section">>, "warning")

invented_project_names(tailored, master) ==
    { project_name \in tailored.project_names :
        project_name \notin master.project_names }

\* 5. Verify technologies (WARNING - subset allowed)
technology_hallucination(tech) ==
    Hallucination("technology", tech, <<"Project technologies">>, "warning")

invented_techs(tailored, master) ==
    tailored.technologies \ master.technologies

\* 6. Verify date ranges (CRITICAL)
date_range_hallucination(range) ==
    Hallucination("date_range", range[2] \o <<" to ">> \o range[3],
                  <<"Work experience at ">> \o range[1], "critical")

altered_date_ranges_any_company(tailored, master) ==
    { range \in tailored.date_ranges : range \notin master.date_ranges }

\* The date step as it would be if it compared the months the strings denote.
altered_date_ranges_by_parsed_date(tailored, master) ==
    { range \in tailored.date_ranges :
        /\ ~ \E known \in master.date_ranges :
               /\ known[1] = range[1]
               /\ parse_date(known[2]) = parse_date(range[2])
               /\ parse_date(known[3]) = parse_date(range[3])
        /\ range[1] \in master.companies }

altered_date_ranges(tailored, master) ==
    { range \in tailored.date_ranges :
        /\ range \notin master.date_ranges
        /\ range[1] \in master.companies }

\* 7. Verify graduation dates (CRITICAL)
graduation_date_hallucination(grad) ==
    Hallucination("graduation_date", grad[2],
                  <<"Education at ">> \o grad[1], "critical")

\* The graduation step as it would be if it flagged nothing.
altered_graduation_dates_unchecked(tailored, master) == {}

altered_graduation_dates(tailored, master) ==
    { grad \in tailored.graduation_dates :
        /\ grad \notin master.graduation_dates
        /\ grad[1] \in master.institutions }

\* Determine if valid (no critical hallucinations)
is_valid_if_no_hallucination(hallucinations) == hallucinations = <<>>

is_valid_of(hallucinations) ==
    LET critical_hallucinations ==
            SelectSeq(hallucinations, LAMBDA h : h.severity = "critical")
    IN  Len(critical_hallucinations) = 0

VerificationResult(is_valid, hallucinations) ==
    [ is_valid |-> is_valid, hallucinations |-> hallucinations ]

\* The results verify_resume may return for the candidate facts
\* tailored against the master facts: one for each way the loops may
\* enumerate the sets.
verify_resume_results(tailored, master) ==
    { VerificationResult(
          is_valid_of(c \o i \o s \o p \o t \o d \o g),
          c \o i \o s \o p \o t \o d \o g) :
        c \in { Appended(o, company_hallucination) :
                  o \in Orders(invented_companies(tailored, master)) },
        i \in { Appended(o, institution_hallucination) :
                  o \in Orders(invented_institutions(tailored, master)) },
        s \in { Appended(o, skill_hallucination) :
                  o \in Orders(invented_skills(tailored, master)) },
        p \in { Appended(o, project_name_hallucination) :
                  o \in Orders(invented_project_names(tailored, master)) },
        t \in { Appended(o, technology_hallucination) :
                  o \in Orders(invented_techs(tailored, master)) },
        d \in { Appended(o, date_range_hallucination) :
                  o \in Orders(altered_date_ranges(tailored, master)) },
        g \in { Appended(o, graduation_date_hallucination) :
                  o \in Orders(altered_graduation_dates(tailored, master)) } }

\* str(n) for a natural number n
RECURSIVE Decimal(_)
Decimal(n) ==
    LET digit == <<"0","1","2","3","4","5","6","7","8","9">>[(n % 10) + 1]
    IN  IF n < 10 THEN <<digit>> ELSE Decimal(n \div 10) \o <<digit>>

\* "\n".join(lines)
RECURSIVE JoinLines(_)
JoinLines(lines) ==
    IF lines = <<>> THEN <<>>
    ELSE IF Len(lines) = 1 THEN lines[1]
    ELSE lines[1] \o <<"\n">> \o JoinLines(Tail(lines))

\* The two lines of one hallucination of a block.
HallucinationLines(h) ==
    << <<"  * ", h.category, ": '">> \o h.claimed_value
           \o <<"' not found in master resume">>,
       <<"    Context: ">> \o h.context >>

\* The lines of a block as they would be if a block listed the latest
\* hallucination first.
RECURSIVE BlockLinesLatestFirst(_)
BlockLinesLatestFirst(hs) ==
    IF hs = <<>> THEN <<>>
    ELSE BlockLinesLatestFirst(Tail(hs)) \o HallucinationLines(Head(hs))

RECURSIVE BlockLines(_)
BlockLines(hs) ==
    IF hs = <<>> THEN <<>>
    ELSE HallucinationLines(Head(hs)) \o BlockLines(Tail(hs))

BannerWidth == 80

Banner == [ i \in 1..BannerWidth |-> "=" ]

format_empty_if_no_hallucination(res) ==
    IF res.hallucinations = <<>> THEN <<>> ELSE <<"FACT VERIFICATION ERRORS">>

format_hallucinations_for_retry(res) ==
    IF res.is_valid THEN <<>>
    ELSE
    LET critical == SelectSeq(res.hallucinations, LAMBDA h : h.severity = "critical")
        warnings == SelectSeq(res.hallucinations, LAMBDA h : h.severity = "warning")
        lines ==
            << Banner, <<"FACT VERIFICATION ERRORS">>, Banner, <<>>,
               <<"Found ">> \o Decimal(Len(res.hallucinations))
                   \o <<" hallucination(s):">>,
               <<>> >>
            \o (IF critical # <<>>
                THEN << <<"CRITICAL ERRORS (must fix):">> >>
                       \o BlockLines(critical) \o << <<>> >>
                ELSE <<>>)
            \o (IF warnings # <<>>
                THEN << <<"WARNINGS (should fix):">> >>
                       \o BlockLines(warnings) \o << <<>> >>
                ELSE <<>>)
            \o << <<"CRITICAL: Only use facts that exist in the master resume.">>,
                  <<"Do not invent companies, skills, dates, institutions, or education.">>,
                  <<"Do not modify employment dates or graduation dates.">>,
                  Banner, <<>> >>
    IN  JoinLines(lines)

-----------------------------------------------------------------------------
(* Inputs of the normalisation calls.                                      *)

\* The pieces names are built from: a suffix token, a token with capitals, an
\* institution word, a plain letter and the separators the patterns know.
NamePieces ==
    { <<"c","o">>, <<"I","n","c">>, <<"s","c","h","o","o","l">>, <<"x">>,
      <<" ">>, <<"_">>, <<"-">>, <<".">> }

RECURSIVE PieceNames(_)
PieceNames(n) ==
    IF n = 0 THEN { <<>> }
    ELSE LET shorter == PieceNames(n - 1)
         IN  shorter \cup { x \o p : x \in shorter, p \in NamePieces }

CordovaSystems == <<"C","o","r","d","o","v","a"," ","S","y","s","t","e","m","s">>

AcmeInc == <<"A","c","m","e"," ","I","n","c",".">>

PreschoolInstitute ==
    <<"P","r","e","s","c","h","o","o","l"," ","I","n","s","t","i","t","u","t","e">>

SampleNames == { CordovaSystems, AcmeInc, PreschoolInstitute }

NameInputs == PieceNames(MaxPieces) \cup SampleNames

-----------------------------------------------------------------------------
(* Specification SpecNorm: one name, and the normalize_* calls made on it. *)

InitNorm ==
    /\ RestIdle
    /\ raw_name \in NameInputs
    /\ norm_arg = <<>>
    /\ normalized = <<>>
    /\ norm_call = "none"
    /\ master_resume = <<>>
    /\ master_facts = <<>>
    /\ tailored_resume = <<>>
    /\ tailored_facts = <<>>
    /\ result = <<>>
    /\ verify_calls = 0
    /\ feedback = <<>>
    /\ formatted = FALSE
    /\ unvalidated = <<>>
    /\ operation = "none"
    /\ raised = "none"
    /\ returned = <<>>
    /\ frames = <<>>
    /\ lists = <<>>

\* normalize_company_name(raw_name)
CallNormalizeCompany ==
    /\ norm_call = "none"
    /\ norm_arg' = raw_name
    /\ normalized' = normalize_company_name(raw_name)
    /\ norm_call' = "company"
    /\ UNCHANGED << raw_name, verifier_vars, input_vars, calls_vars, rest_vars >>

\* normalize_company_name applied to the value it returned
CallNormalizeCompanyAgain ==
    /\ norm_call = "company"
    /\ norm_arg' = normalized
    /\ normalized' = normalize_company_name(normalized)
    /\ norm_call' = "company_again"
    /\ UNCHANGED << raw_name, verifier_vars, input_vars, calls_vars, rest_vars >>

\* normalize_company_name(raw_name + ' ' + suffix) and (raw_name + ' ' + suffix + '.')
CallNormalizeCompanySuffixed ==
    /\ norm_call = "none"
    /\ \E k \in DOMAIN CompanySuffixes, dot \in { <<>>, <<".">> }, cap \in BOOLEAN :
          LET token == IF cap THEN StrUpper(CompanySuffixes[k]) ELSE CompanySuffixes[k]
              arg   == raw_name \o <<" ">> \o token \o dot
          IN  /\ norm_arg' = arg
              /\ normalized' = normalize_company_name(arg)
    /\ norm_call' = "company_suffixed"
    /\ UNCHANGED << raw_name, verifier_vars, input_vars, calls_vars, rest_vars >>

\* normalize_company_name(raw_name.upper())
CallNormalizeCompanyUpper ==
    /\ norm_call = "none"
    /\ norm_arg' = StrUpper(raw_name)
    /\ normalized' = normalize_company_name(StrUpper(raw_name))
    /\ norm_call' = "company_upper"
    /\ UNCHANGED << raw_name, verifier_vars, input_vars, calls_vars, rest_vars >>

\* normalize_institution_name(raw_name)
CallNormalizeInstitution ==
    /\ norm_call = "none"
    /\ norm_arg' = raw_name
    /\ normalized' = normalize_institution_name(raw_name)
    /\ norm_call' = "institution"
    /\ UNCHANGED << raw_name, verifier_vars, input_vars, calls_vars, rest_vars >>

NextNorm ==
    \/ CallNormalizeCompany
    \/ CallNormalizeCompanyAgain
    \/ CallNormalizeCompanySuffixed
    \/ CallNormalizeCompanyUpper
    \/ CallNormalizeInstitution

SpecNorm == InitNorm /\ [][NextNorm]_vars

-----------------------------------------------------------------------------
(* Inputs of the verifier: master resumes and candidate resumes.           *)

ACME == <<"A","C","M","E">>

Initech == <<"I","n","i","t","e","c","h">>

Engineer == <<"E","n","g","i","n","e","e","r">>

Manager == <<"M","a","n","a","g","e","r">>

D2020_01 == <<"2","0","2","0","-","0","1">>

D2020_1 == <<"2","0","2","0","-","1">>

D2021_06 == <<"2","0","2","1","-","0","6">>

StateUniversity == <<"S","t","a","t","e"," ","U","n","i","v","e","r","s","i","t","y">>

StateCollege == <<"S","t","a","t","e"," ","C","o","l","l","e","g","e">>

MIT == <<"M","I","T">>

BS == <<"B","S">>

MS == <<"M","S">>

UniversityOfNorthCarolinaAtChapelHill ==
    <<"U","n","i","v","e","r","s","i","t","y"," ","o","f"," ","N","o","r","t","h"," ","C","a","r","o","l","i","n","a"," ","a","t"," ","C","h","a","p","e","l"," ","H","i","l","l">>

UNCChapelHill == <<"U","N","C"," ","C","h","a","p","e","l"," ","H","i","l","l">>

D2019_05 == <<"2","0","1","9","-","0","5">>

D2019_06 == <<"2","0","1","9","-","0","6">>

PyGo == <<"P","y",","," ","G","o">>

GoPY == <<"g","o",","," ","P","Y">>

PyRust == <<"P","y",",","R","u","s","t",",">>

Tailor == <<"T","a","i","l","o","r">>

Ghost == <<"G","h","o","s","t">>

Py == <<"P","y">>

Rust == <<"R","u","s","t">>

RustLower == <<"r","u","s","t">>

Job(company, job_title, start_date, end_date) ==
    [ company |-> company, job_title |-> job_title,
      start_date |-> start_date, end_date |-> end_date ]

Edu(institution, degree, graduation_date) ==
    [ institution |-> institution, degree |-> degree,
      graduation_date |-> graduation_date ]

Project(project_name, technologies) ==
    [ project_name |-> project_name, technologies |-> technologies ]

SeqsUpTo(S, n) == UNION { [1..k -> S] : k \in 0..n }

\* The sections of the master resume, where it has them.
MasterWork == << Job(ACME, Engineer, D2020_01, D2021_06) >>

MasterEducation ==
    << Edu(StateUniversity, BS, D2019_05),
       Edu(UniversityOfNorthCarolinaAtChapelHill, MS, D2019_06) >>

MasterSkills == ("Languages" :> PyGo)

MasterProjects == << Project(Tailor, <<Py>>) >>

\* A resume record without any section: {}
EmptyResume == <<>>

FullMaster ==
    ("work_experience" :> MasterWork) @@ ("education" :> MasterEducation)
    @@ ("skills" :> MasterSkills) @@ ("projects" :> MasterProjects)

\* The master resumes: one with every section, one with none.
MasterResumes == { FullMaster, EmptyResume }

\* The entries a candidate section is made of: the master's facts, respelled,
\* altered, invented or left out.
JobEntries ==
    { Job(company, job_title, start_date, D2021_06) :
        company \in { AcmeInc, Initech },
        job_title \in { Manager },
        start_date \in { D2020_01, D2020_1, <<>> } }
    \cup { [ job_title |-> Manager, start_date |-> D2020_01, end_date |-> D2021_06 ] }

EduEntries ==
    { Edu(institution, degree, graduation_date) :
        institution \in { StateCollege, MIT },
        degree \in { MS },
        graduation_date \in { D2019_05, D2019_06, <<>> } }

\* The two spellings of the institution the extractor knows by two names, as
\* written, in lower case and in upper case.
UncSpellings ==
    UNION { { name, StrLower(name), StrUpper(name) } :
              name \in { UniversityOfNorthCarolinaAtChapelHill, UNCChapelHill } }

UncEduEntries == { Edu(institution, MS, D2019_06) : institution \in UncSpellings }

SkillCategories == << "Languages", "Tools", "Frameworks" >>

SkillStrings == { PyGo, GoPY, PyRust, <<>> }

SkillDicts(n) ==
    UNION { [ { SkillCategories[i] : i \in 1..k } -> SkillStrings ] :
              k \in 0..(IF n < Len(SkillCategories) THEN n ELSE Len(SkillCategories)) }

ProjectEntries ==
    { Project(project_name, technologies) :
        project_name \in { Tailor, Ghost },
        technologies \in { <<Py>>, <<Rust, RustLower>>, <<>> } }

\* What the sections that do not vary hold: nothing, what the master holds, or
\* one invented entry each.
WorkFillers ==
    << EmptyResume, "work_experience" :> MasterWork,
       "work_experience" :> << Job(Initech, Engineer, D2020_01, D2021_06) >> >>

EducationFillers ==
    << EmptyResume, "education" :> MasterEducation,
       "education" :> << Edu(MIT, BS, D2019_05) >> >>

SkillsFillers ==
    << EmptyResume, "skills" :> MasterSkills, "skills" :> ("Tools" :> PyRust) >>

ProjectsFillers ==
    << EmptyResume, "projects" :> MasterProjects,
       "projects" :> << Project(Ghost, <<Rust>>) >> >>

\* The candidates: one section varies over the lists of at most MaxEntries
\* entries, the other sections are filled alike.
CandidateResumes ==
    UNION {
        { ("work_experience" :> w) @@ EducationFillers[k] @@ SkillsFillers[k]
              @@ ProjectsFillers[k] : w \in SeqsUpTo(JobEntries, MaxEntries) }
        \cup
        { WorkFillers[k] @@ ("education" :> e) @@ SkillsFillers[k]
              @@ ProjectsFillers[k] : e \in SeqsUpTo(EduEntries, MaxEntries) }
        \cup
        { WorkFillers[k] @@ EducationFillers[k] @@ ("skills" :> s)
              @@ ProjectsFillers[k] : s \in SkillDicts(MaxEntries) }
        \cup
        { WorkFillers[k] @@ EducationFillers[k] @@ SkillsFillers[k]
              @@ ("projects" :> p) : p \in SeqsUpTo(ProjectEntries, MaxEntries) }
        \cup
        { WorkFillers[k] @@ ("education" :> << e >>) @@ SkillsFillers[k]
              @@ ProjectsFillers[k] : e \in UncEduEntries }
        : k \in DOMAIN WorkFillers }


-----------------------------------------------------------------------------
(* Specification Spec: one FactVerifier and the calls made on it.          *)

EmptyFacts ==
    [ companies |-> {}, job_titles |-> {}, date_ranges |-> {}, institutions |-> {},
      degrees |-> {}, graduation_dates |-> {}, skills |-> {}, project_names |-> {},
      technologies |-> {} ]

\* FactVerifier.__init__(master_resume)
Init ==
    /\ RestIdle
    /\ master_resume \in MasterResumes
    /\ master_facts = extract_all_facts(master_resume)
    /\ tailored_resume = EmptyResume
    /\ tailored_facts = EmptyFacts
    /\ result = VerificationResult(TRUE, <<>>)
    /\ verify_calls = 0
    /\ feedback = <<>>
    /\ formatted = FALSE
    /\ raw_name = <<>>
    /\ norm_arg = <<>>
    /\ normalized = <<>>
    /\ norm_call = "none"
    /\ unvalidated = <<>>
    /\ operation = "none"
    /\ raised = "none"
    /\ returned = <<>>
    /\ frames = <<>>
    /\ lists = <<>>

\* verify_resume(candidate), with the order its loops happen to take: the
\* first call on a candidate or on the master resume itself, a later call on
\* the same candidate once more.
VerifyResume ==
    /\ verify_calls < MaxCalls
    /\ \E candidate \in (IF verify_calls = 0
                          THEN CandidateResumes \cup { master_resume }
                          ELSE { tailored_resume }) :
          /\ tailored_resume' = candidate
          /\ tailored_facts' = extract_all_facts(candidate)
    /\ result' \in verify_resume_results(tailored_facts', master_facts)
    /\ verify_calls' = verify_calls + 1
    /\ feedback' = <<>>
    /\ formatted' = FALSE
    /\ UNCHANGED << master_resume, master_facts, norm_vars, input_vars, calls_vars, rest_vars >>

\* format_hallucinations_for_retry(result)
FormatHallucinationsForRetry ==
    /\ verify_calls >= 1
    /\ ~formatted
    /\ feedback' = format_hallucinations_for_retry(result)
    /\ formatted' = TRUE
    /\ UNCHANGED << master_resume, master_facts, tailored_resume, tailored_facts,
                    result, verify_calls, norm_vars, input_vars, calls_vars, rest_vars >>

Next ==
    \/ VerifyResume
    \/ FormatHallucinationsForRetry

Spec == Init /\ [][Next]_vars

-----------------------------------------------------------------------------
(* Properties of the normalisation calls (checked under SpecNorm).         *)

\* The maximal runs of word characters of s: its whole words.
WholeWords(s) ==
    { SubSeq(s, x[1], x[2]) : x \in
        { y \in (1..Len(s)) \X (1..Len(s)) :
            /\ y[1] <= y[2]
            /\ \A k \in y[1]..y[2] : IsWordChar(s[k])
            /\ (y[1] = 1 \/ ~IsWordChar(s[y[1] - 1]))
            /\ (y[2] = Len(s) \/ ~IsWordChar(s[y[2] + 1])) } }

\* s without the characters of the class [-_\s].
RECURSIVE WithoutSeparators(_)
WithoutSeparators(s) ==
    IF s = <<>> THEN <<>>
    ELSE (IF Head(s) \in Separators THEN <<>> ELSE <<Head(s)>>)
         \o WithoutSeparators(Tail(s))

\* C8: normalize_company_name is idempotent: applied to a value it returned,
\* it returns that value.
C8_CompanyIdempotent ==
    norm_call = "company_again" => normalized = norm_arg

\* C9: normalize_company_name is insensitive to letter case and to a corporate
\* suffix token, with or without a period, appended as a separate word: the
\* upper-cased name and every suffixed name normalise to what the name itself
\* normalises to.
C9_CaseAndSuffixInsensitive ==
    norm_call \in {"company_suffixed", "company_upper"}
        => normalized = normalize_company_name(raw_name)

\* C9 witness: a name with letters, suffixed or upper-cased, was normalised to a
\* non-empty value different from the argument.
C9_Witness ==
    /\ norm_call = "company_suffixed"
    /\ raw_name = AcmeInc
    /\ normalized = <<"a","c","m","e">>
    /\ Len(norm_arg) > Len(raw_name)

\* C10: a suffix token is removed only where it is a whole word: a name none of
\* whose whole words is a token keeps every character that is not a separator,
\* and 'Cordova Systems' normalises to 'cordova systems'.
C10_WholeWordOnly ==
    /\ (norm_call = "company"
        /\ WholeWords(StrLower(raw_name)) \cap Range(CompanySuffixes) = {})
           => WithoutSeparators(normalized) = WithoutSeparators(StrLower(raw_name))
    /\ (norm_call = "institution"
        /\ WholeWords(StrLower(raw_name)) \cap Range(InstitutionWords) = {})
           => WithoutSeparators(normalized) = WithoutSeparators(StrLower(raw_name))
    /\ (norm_call = "company" /\ raw_name = CordovaSystems)
           => normalized = <<"c","o","r","d","o","v","a"," ","s","y","s","t","e","m","s">>

\* C10 witness: a name that holds the letters of a token inside a longer word
\* was normalised.
C10_Witness ==
    /\ norm_call = "company"
    /\ raw_name = <<"x","c","o">>
    /\ normalized = <<"x","c","o">>

-----------------------------------------------------------------------------
(* Properties of the verifier (checked under Spec).                        *)

\* The positions of result.hallucinations that hold a hallucination of the
\* category with the claimed value.
Flagging(category, claimed_value) ==
    { i \in DOMAIN result.hallucinations :
        /\ result.hallucinations[i].category = category
        /\ result.hallucinations[i].claimed_value = claimed_value }

\* The positions that hold a hallucination of the category with the context.
FlaggingAt(category, context) ==
    { i \in DOMAIN result.hallucinations :
        /\ result.hallucinations[i].category = category
        /\ result.hallucinations[i].context = context }

SeverityOf(category) ==
    { result.hallucinations[i].severity :
        i \in { j \in DOMAIN result.hallucinations :
                  result.hallucinations[j].category = category } }

CriticalKeys == { "companies", "institutions", "date_ranges", "graduation_dates" }

WarningKeys == { "skills", "project_names", "technologies" }

\* C1: the result is valid exactly when none of its hallucinations is
\* critical; warnings do not invalidate.
C1_ValidIffNoCritical ==
    verify_calls >= 1 =>
        (result.is_valid <=>
            \A i \in DOMAIN result.hallucinations :
                result.hallucinations[i].severity # "critical")

\* C1 witness: a result that holds a warning and is valid.
C1_Witness ==
    /\ verify_calls >= 1
    /\ result.is_valid
    /\ \E i \in DOMAIN result.hallucinations :
          result.hallucinations[i].severity = "warning"

\* C2: every candidate work entry with a non-empty company whose normalised
\* name the master does not hold yields a critical 'company' hallucination and
\* an invalid result; the same for education entries and 'institution'.
C2_UnknownEmployerCritical ==
    verify_calls >= 1 =>
        /\ \A job \in Range(Get(tailored_resume, "work_experience", <<>>)) :
              (/\ Get(job, "company", <<>>) # <<>>
               /\ normalize_company_name(Get(job, "company", <<>>))
                      \notin master_facts.companies)
              => /\ \E i \in Flagging("company",
                                      normalize_company_name(Get(job, "company", <<>>))) :
                        result.hallucinations[i].severity = "critical"
                 /\ ~result.is_valid
        /\ \A edu \in Range(Get(tailored_resume, "education", <<>>)) :
              (/\ Get(edu, "institution", <<>>) # <<>>
               /\ normalize_institution_name(Get(edu, "institution", <<>>))
                      \notin master_facts.institutions)
              => /\ \E i \in Flagging("institution",
                                      normalize_institution_name(Get(edu, "institution", <<>>))) :
                        result.hallucinations[i].severity = "critical"
                 /\ ~result.is_valid

\* C2 witness: against a master that knows ACME, a candidate with an entry at
\* Acme Inc. and an entry at Initech was verified and Initech was flagged.
C2_Witness ==
    /\ verify_calls >= 1
    /\ master_resume = FullMaster
    /\ { Get(job, "company", <<>>) :
           job \in Range(Get(tailored_resume, "work_experience", <<>>)) }
         = { AcmeInc, Initech }
    /\ Flagging("company", <<"i","n","i","t","e","c","h">>) # {}
    /\ Flagging("company", <<"a","c","m","e">>) = {}

\* C3: a candidate date fact the master does not hold is flagged once, as a
\* critical 'date_range' ('graduation_date'), and its company (institution) is
\* not flagged, when the master knows the company (institution); otherwise the
\* company (institution) is flagged and the date is not.
C3_DateFlaggedOnceOrEmployerOnly ==
    verify_calls >= 1 =>
        /\ \A range \in tailored_facts.date_ranges \ master_facts.date_ranges :
              IF range[1] \in master_facts.companies
              THEN /\ Cardinality(
                        { i \in Flagging("date_range", range[2] \o <<" to ">> \o range[3]) :
                            /\ result.hallucinations[i].context
                                   = <<"Work experience at ">> \o range[1]
                            /\ result.hallucinations[i].severity = "critical" }) = 1
                   /\ Cardinality(FlaggingAt("date_range",
                                             <<"Work experience at ">> \o range[1]))
                        = Cardinality({ r \in tailored_facts.date_ranges \ master_facts.date_ranges :
                                          r[1] = range[1] })
                   /\ Flagging("company", range[1]) = {}
              ELSE /\ Cardinality(Flagging("company", range[1])) = 1
                   /\ FlaggingAt("date_range", <<"Work experience at ">> \o range[1]) = {}
        /\ \A grad \in tailored_facts.graduation_dates \ master_facts.graduation_dates :
              IF grad[1] \in master_facts.institutions
              THEN /\ Cardinality(
                        { i \in Flagging("graduation_date", grad[2]) :
                            /\ result.hallucinations[i].context
                                   = <<"Education at ">> \o grad[1]
                            /\ result.hallucinations[i].severity = "critical" }) = 1
                   /\ Flagging("institution", grad[1]) = {}
              ELSE /\ Cardinality(Flagging("institution", grad[1])) = 1
                   /\ FlaggingAt("graduation_date", <<"Education at ">> \o grad[1]) = {}

\* C3 witness: a candidate with an altered date at a company the master knows
\* and a dated entry at a company it does not know was verified.
C3_Witness ==
    /\ verify_calls >= 1
    /\ \E known \in tailored_facts.date_ranges \ master_facts.date_ranges :
          /\ known[1] \in master_facts.companies
          /\ FlaggingAt("date_range", <<"Work experience at ">> \o known[1]) # {}
    /\ \E unknown \in tailored_facts.date_ranges \ master_facts.date_ranges :
          /\ unknown[1] \notin master_facts.companies
          /\ Flagging("company", unknown[1]) # {}

\* C4: each distinct normalised candidate skill, technology and project name
\* the master does not hold is flagged exactly once, as a warning, and no
\* other value is; a candidate with no other discrepancy is valid.
C4_AdditionsWarnedOnce ==
    verify_calls >= 1 =>
        /\ \A v \in tailored_facts.skills :
              Cardinality(Flagging("skill", v))
                  = IF v \in master_facts.skills THEN 0 ELSE 1
        /\ \A v \in tailored_facts.technologies :
              Cardinality(Flagging("technology", v))
                  = IF v \in master_facts.technologies THEN 0 ELSE 1
        /\ \A v \in tailored_facts.project_names :
              Cardinality(Flagging("project_name", v))
                  = IF v \in master_facts.project_names THEN 0 ELSE 1
        /\ SeverityOf("skill") \cup SeverityOf("technology")
               \cup SeverityOf("project_name") \subseteq { "warning" }
        /\ (\A key \in CriticalKeys : tailored_facts[key] \subseteq master_facts[key])
               => result.is_valid

\* C4 witness: a candidate that names an invented skill in two categories and
\* has no other discrepancy was verified: one warning, a valid result.
C4_Witness ==
    /\ verify_calls >= 1
    /\ master_resume = FullMaster
    /\ Cardinality({ category \in DOMAIN Get(tailored_resume, "skills", <<>>) :
                       tailored_resume.skills[category] = PyRust }) >= 2
    /\ Len(result.hallucinations) = 1
    /\ Flagging("skill", <<"r","u","s","t">>) = { 1 }
    /\ result.is_valid

\* C5: when every candidate fact set is a subset of the master's, the result
\* holds no hallucination and is valid; so for the master resume itself.
C5_SubsetIsClean ==
    verify_calls >= 1 =>
        /\ (\A key \in CriticalKeys \cup WarningKeys :
                tailored_facts[key] \subseteq master_facts[key])
               => (result.hallucinations = <<>> /\ result.is_valid)
        /\ tailored_resume = master_resume
               => (result.hallucinations = <<>> /\ result.is_valid)

\* C5 witness: a candidate that keeps the master's employer and leaves out the
\* master's skills was verified without a hallucination.
C5_Witness ==
    /\ verify_calls >= 1
    /\ tailored_resume # master_resume
    /\ tailored_facts.companies = master_facts.companies
    /\ tailored_facts.companies # {}
    /\ tailored_facts.skills # master_facts.skills
    /\ tailored_facts.skills \subseteq master_facts.skills
    /\ result.hallucinations = <<>>

\* C6: format_hallucinations_for_retry returns the empty string exactly for
\* the valid results.
C6_FeedbackEmptyIffValid ==
    formatted => ((feedback = <<>>) <=> result.is_valid)

\* C6 witness: a valid result that holds warnings was formatted, to the empty
\* string.
C6_Witness ==
    /\ formatted
    /\ result.is_valid
    /\ result.hallucinations # <<>>
    /\ feedback = <<>>

\* C7: verifying the same candidate once more against the same master returns
\* the same result, the hallucinations in the same order.
C7_SameResultAgain ==
    [][(verify_calls >= 1 /\ verify_calls' = verify_calls + 1) => result' = result]_vars

\* C11: an education entry that names the University of North Carolina at
\* Chapel Hill by its long form or as UNC Chapel Hill, in any letter case, is
\* extracted as the institution 'unc chapel hill', and is not flagged as an
\* institution hallucination against a master resume that uses another of
\* these spellings.
C11_UncSpellingsAgree ==
    \A i \in DOMAIN Get(tailored_resume, "education", <<>>) :
       ( /\ verify_calls >= 1
         /\ Get(tailored_resume["education"][i], "institution", <<>>) \in UncSpellings
         /\ \E m \in Range(Get(master_resume, "education", <<>>)) :
               Get(m, "institution", <<>>) \in UncSpellings )
       => /\ UncChapelHillShort \in tailored_facts.institutions
          /\ UncChapelHillShort \in master_facts.institutions
          /\ ~ \E h \in Range(result.hallucinations) :
                 /\ h.category = "institution"
                 /\ h.claimed_value = UncChapelHillShort

\* C11 happens: the master resume has the long form, the candidate verified
\* says UNC Chapel Hill, and no institution is flagged.
C11_Witness ==
    /\ verify_calls >= 1
    /\ "education" \in DOMAIN master_resume
    /\ UniversityOfNorthCarolinaAtChapelHill
           \in { Get(m, "institution", <<>>) : m \in Range(master_resume["education"]) }
    /\ "education" \in DOMAIN tailored_resume
    /\ UNCChapelHill
           \in { Get(e, "institution", <<>>) : e \in Range(tailored_resume["education"]) }
    /\ ~ \E h \in Range(result.hallucinations) : h.category = "institution"

-----------------------------------------------------------------------------
(* Properties of the extraction (checked under Spec).                      *)

\* C12: the facts extracted from the record {} are nine empty sets; every
\* section a record lacks contributes empty sets, and every section it has
\* contributes the facts of its entries whatever other sections are missing.
C12_MissingSectionsAreEmpty ==
    /\ master_resume = EmptyResume => master_facts = EmptyFacts
    /\ DOMAIN master_facts = DOMAIN EmptyFacts
    /\ verify_calls >= 1 =>
          /\ DOMAIN tailored_facts = DOMAIN EmptyFacts
          /\ IF "work_experience" \in DOMAIN tailored_resume
                THEN LET work == extract_work_experience_facts(tailored_resume["work_experience"])
                     IN  /\ tailored_facts.companies = work.companies
                         /\ tailored_facts.job_titles = work.job_titles
                         /\ tailored_facts.date_ranges = work.date_ranges
                ELSE /\ tailored_facts.companies = {}
                     /\ tailored_facts.job_titles = {}
                     /\ tailored_facts.date_ranges = {}
          /\ IF "education" \in DOMAIN tailored_resume
                THEN LET edu == extract_education_facts(tailored_resume["education"])
                     IN  /\ tailored_facts.institutions = edu.institutions
                         /\ tailored_facts.degrees = edu.degrees
                         /\ tailored_facts.graduation_dates = edu.graduation_dates
                ELSE /\ tailored_facts.institutions = {}
                     /\ tailored_facts.degrees = {}
                     /\ tailored_facts.graduation_dates = {}
          /\ IF "skills" \in DOMAIN tailored_resume
                THEN tailored_facts.skills = extract_skills(tailored_resume["skills"])
                ELSE tailored_facts.skills = {}
          /\ IF "projects" \in DOMAIN tailored_resume
                THEN LET proj == extract_project_facts(tailored_resume["projects"])
                     IN  /\ tailored_facts.project_names = proj.project_names
                         /\ tailored_facts.technologies = proj.technologies
                ELSE /\ tailored_facts.project_names = {}
                     /\ tailored_facts.technologies = {}

\* C12 happens: a candidate with work experience and no other section was
\* verified; it has company facts and no education, skill or project facts.
C12_Witness ==
    /\ verify_calls >= 1
    /\ DOMAIN tailored_resume = { "work_experience" }
    /\ tailored_facts.companies # {}
    /\ tailored_facts.date_ranges # {}
    /\ tailored_facts.institutions = {}
    /\ tailored_facts.skills = {}
    /\ tailored_facts.technologies = {}

-----------------------------------------------------------------------------
(* Properties of the date steps (checked under Spec).                      *)

\* The entries of a section that carry the fields named, all non-empty.
EntriesWith(resume, section, fields) ==
    { e \in Range(Get(resume, section, <<>>)) :
        \A f \in fields : Get(e, f, <<>>) # <<>> }

\* C20: dates are compared as the raw strings of the records.  A candidate
\* entry with a company the master knows and with start and end dates is
\* flagged as a critical 'date_range' exactly when no master entry of that
\* company has the same start string and the same end string, whatever months
\* the strings denote; an entry identical to a master entry is never flagged.
\* The same holds of graduation dates.
C20_RawDatesCompared ==
    verify_calls >= 1 =>
      /\ \A job \in EntriesWith(tailored_resume, "work_experience",
                                 { "company", "start_date", "end_date" }) :
            normalize_company_name(job.company) \in master_facts.companies =>
              ( ( \E h \in Range(result.hallucinations) :
                     /\ h.category = "date_range"
                     /\ h.severity = "critical"
                     /\ h.claimed_value = job.start_date \o <<" to ">> \o job.end_date
                     /\ h.context = <<"Work experience at ">>
                                        \o normalize_company_name(job.company) )
                <=> ~ \E m \in EntriesWith(master_resume, "work_experience",
                                          { "company", "start_date", "end_date" }) :
                        /\ normalize_company_name(m.company)
                               = normalize_company_name(job.company)
                        /\ m.start_date = job.start_date
                        /\ m.end_date = job.end_date )
      /\ \A edu \in EntriesWith(tailored_resume, "education",
                                 { "institution", "graduation_date" }) :
            normalize_institution_name(edu.institution) \in master_facts.institutions =>
              ( ( \E h \in Range(result.hallucinations) :
                     /\ h.category = "graduation_date"
                     /\ h.severity = "critical"
                     /\ h.claimed_value = edu.graduation_date
                     /\ h.context = <<"Education at ">>
                                        \o normalize_institution_name(edu.institution) )
                <=> ~ \E m \in EntriesWith(master_resume, "education",
                                          { "institution", "graduation_date" }) :
                        /\ normalize_institution_name(m.institution)
                               = normalize_institution_name(edu.institution)
                        /\ m.graduation_date = edu.graduation_date )

\* C20 happens: a verified candidate entry at a known company has a start
\* string that differs from the master's and denotes the same month, and it is
\* flagged.
C20_Witness ==
    /\ verify_calls >= 1
    /\ \E job \in EntriesWith(tailored_resume, "work_experience",
                               { "company", "start_date", "end_date" }) :
       \E m \in EntriesWith(master_resume, "work_experience",
                             { "company", "start_date", "end_date" }) :
          /\ normalize_company_name(m.company) = normalize_company_name(job.company)
          /\ m.start_date # job.start_date
          /\ parse_date(m.start_date) = parse_date(job.start_date)
          /\ parse_date(m.start_date) = << 2020, 1 >>
          /\ m.end_date = job.end_date
          /\ \E h \in Range(result.hallucinations) :
                /\ h.category = "date_range"
                /\ h.claimed_value = job.start_date \o <<" to ">> \o job.end_date

-----------------------------------------------------------------------------
(* Properties of the hallucination records (checked under Spec).           *)

\* The strings a resume record holds in its fields, as they are written.
RawStrings(resume) ==
    UNION { { Get(job, f, <<>>) : f \in { "company", "job_title", "start_date", "end_date" } } :
              job \in Range(Get(resume, "work_experience", <<>>)) }
    \cup UNION { { Get(edu, f, <<>>) : f \in { "institution", "degree", "graduation_date" } } :
                   edu \in Range(Get(resume, "education", <<>>)) }
    \cup Range(Get(resume, "skills", <<>>))
    \cup UNION { { Get(project, "project_name", <<>>) }
                   \cup Range(Get(project, "technologies", <<>>)) :
                   project \in Range(Get(resume, "projects", <<>>)) }

\* C18: the claimed_value of every hallucination verify_resume returns is a
\* string of the candidate resume as the candidate wrote it.
C18_ClaimedValueIsRaw ==
    verify_calls >= 1 =>
        \A h \in Range(result.hallucinations) :
            h.claimed_value \in RawStrings(tailored_resume)

\* The step of the specification's algorithm that detects a category.
StepOf(category) ==
    CASE category = "company"         -> 1
      [] category = "institution"     -> 2
      [] category = "skill"           -> 3
      [] category = "technology"      -> 3
      [] category = "project_name"    -> 4
      [] category = "date_range"      -> 5
      [] category = "graduation_date" -> 6

\* C19: verify_resume lists company hallucinations first, then institutions,
\* then skills and technologies, then project names, then date ranges, then
\* graduation dates: none of a later step precedes one of an earlier step.
C19_StepOrder ==
    verify_calls >= 1 =>
        \A i, j \in DOMAIN result.hallucinations :
            i < j => StepOf(result.hallucinations[i].category)
                        <= StepOf(result.hallucinations[j].category)

-----------------------------------------------------------------------------
(* Python values of any type, and what the statements of the extractor do  *)
(* to them.  A value carries its type; the value of a str is its           *)
(* characters, of a list its items, of a dict the mapping of its keys.     *)

PyNone == [ type |-> "NoneType", value |-> <<>> ]

PyStr(s) == [ type |-> "str", value |-> s ]

PyInt(n) == [ type |-> "int", value |-> n ]

PyList(items) == [ type |-> "list", value |-> items ]

PyDict(items) == [ type |-> "dict", value |-> items ]

\* bool(v), as `if v:` and `if not v:` ask it
Truthy(v) ==
    CASE v.type = "NoneType" -> FALSE
      [] v.type = "int"      -> v.value # 0
      [] v.type = "dict"     -> DOMAIN v.value # {}
      [] OTHER               -> v.value # <<>>

\* `for x in v` raises TypeError unless v is iterable
Iterable(v) == v.type \in { "str", "list", "dict" }

\* The values `for x in v` binds x to: the items of a list, the characters of
\* a str, the keys of a dict.
IterSeq(v) ==
    CASE v.type = "list" -> v.value
      [] v.type = "str"  -> [ i \in DOMAIN v.value |-> PyStr(<< v.value[i] >>) ]
      [] v.type = "dict" -> LET keys == CHOOSE o \in Orders(DOMAIN v.value) : TRUE
                            IN  [ i \in DOMAIN keys |-> PyStr(<< keys[i] >>) ]

\* v.get(key, default) of a dict v
PyGet(v, key, default) == IF key \in DOMAIN v.value THEN v.value[key] ELSE default

\* The exception of the first statement that raises, "none" if none does.
RECURSIVE FirstRaised(_)
FirstRaised(outcomes) ==
    IF outcomes = <<>> THEN "none"
    ELSE IF Head(outcomes) # "none" THEN Head(outcomes)
    ELSE FirstRaised(Tail(outcomes))

\* normalize_text(v), and normalize_company_name and normalize_institution_name
\* which start with it: `not text` returns '' for a falsy value of any type,
\* text.lower() raises for a truthy value that is not a str.
normalize_text_raises(v) ==
    IF Truthy(v) /\ v.type # "str" THEN "AttributeError" ELSE "none"

\* A member of a tuple added to a set must be hashable.
Unhashable(v) == v.type \in { "list", "dict" }

\* The body of the loop of extract_work_experience_facts
job_raises(job) ==
    IF job.type # "dict" THEN "AttributeError"
    ELSE FirstRaised(<<
           normalize_text_raises(PyGet(job, "company", PyStr(<<>>))),
           normalize_text_raises(PyGet(job, "job_title", PyStr(<<>>))),
           IF /\ Truthy(PyGet(job, "company", PyStr(<<>>)))
              /\ Truthy(PyGet(job, "start_date", PyStr(<<>>)))
              /\ Truthy(PyGet(job, "end_date", PyStr(<<>>)))
              /\ \/ Unhashable(PyGet(job, "start_date", PyStr(<<>>)))
                 \/ Unhashable(PyGet(job, "end_date", PyStr(<<>>)))
           THEN "TypeError" ELSE "none" >>)

extract_work_experience_facts_raises(work_exp) ==
    IF ~Iterable(work_exp) THEN "TypeError"
    ELSE FirstRaised([ i \in DOMAIN IterSeq(work_exp) |-> job_raises(IterSeq(work_exp)[i]) ])

\* The body of the loop of extract_education_facts
edu_raises(edu) ==
    IF edu.type # "dict" THEN "AttributeError"
    ELSE FirstRaised(<<
           normalize_text_raises(PyGet(edu, "institution", PyStr(<<>>))),
           normalize_text_raises(PyGet(edu, "degree", PyStr(<<>>))),
           IF /\ Truthy(PyGet(edu, "institution", PyStr(<<>>)))
              /\ Truthy(PyGet(edu, "graduation_date", PyStr(<<>>)))
              /\ Unhashable(PyGet(edu, "graduation_date", PyStr(<<>>)))
           THEN "TypeError" ELSE "none" >>)

extract_education_facts_raises(education) ==
    IF ~Iterable(education) THEN "TypeError"
    ELSE FirstRaised([ i \in DOMAIN IterSeq(education) |-> edu_raises(IterSeq(education)[i]) ])

\* skills.items() needs a dict, skills_str.split(',') a str
extract_skills_raises(skills) ==
    IF skills.type # "dict" THEN "AttributeError"
    ELSE IF \E category \in DOMAIN skills.value :
               /\ Truthy(skills.value[category])
               /\ skills.value[category].type # "str"
         THEN "AttributeError"
    ELSE "none"

\* `for tech in tech_list`, under `if tech_list:`
tech_list_raises(tech_list) ==
    IF ~Truthy(tech_list) THEN "none"
    ELSE IF ~Iterable(tech_list) THEN "TypeError"
    ELSE FirstRaised([ i \in DOMAIN IterSeq(tech_list) |->
                         normalize_text_raises(IterSeq(tech_list)[i]) ])

\* The body of the loop of extract_project_facts
project_raises(project) ==
    IF project.type # "dict" THEN "AttributeError"
    ELSE FirstRaised(<<
           normalize_text_raises(PyGet(project, "project_name", PyStr(<<>>))),
           tech_list_raises(PyGet(project, "technologies", PyList(<<>>))) >>)

extract_project_facts_raises(projects) ==
    IF ~Iterable(projects) THEN "TypeError"
    ELSE FirstRaised([ i \in DOMAIN IterSeq(projects) |-> project_raises(IterSeq(projects)[i]) ])

extract_all_facts_raises(resume) ==
    IF resume.type # "dict" THEN "AttributeError"
    ELSE FirstRaised(<<
           extract_work_experience_facts_raises(
               PyGet(resume, "work_experience", PyList(<<>>))),
           extract_education_facts_raises(PyGet(resume, "education", PyList(<<>>))),
           extract_skills_raises(PyGet(resume, "skills", PyDict(<<>>))),
           extract_project_facts_raises(PyGet(resume, "projects", PyList(<<>>))) >>)

\* What the extractor reads of a value it has accepted, when no statement
\* raised: the characters of a str, '' for a value its `if` skips.  (A truthy
\* int in a date field would be kept as it is; the inputs below hold none.)
PlainStr(v) == IF v.type = "str" THEN v.value ELSE <<>>

\* The items a loop over an accepted value reads.
PlainList(v) ==
    IF ~Truthy(v) THEN <<>>
    ELSE [ i \in DOMAIN IterSeq(v) |-> PlainStr(IterSeq(v)[i]) ]

PlainEntry(entry) ==
    [ f \in DOMAIN entry.value |->
        IF f = "technologies" THEN PlainList(entry.value[f])
        ELSE PlainStr(entry.value[f]) ]

PlainEntries(section) ==
    [ i \in DOMAIN IterSeq(section) |-> PlainEntry(IterSeq(section)[i]) ]

PlainSkills(skills) ==
    [ category \in DOMAIN skills.value |-> PlainStr(skills.value[category]) ]

PlainResume(resume) ==
    [ section \in DOMAIN resume.value |->
        IF section = "skills" THEN PlainSkills(resume.value[section])
        ELSE PlainEntries(resume.value[section]) ]

\* extract_all_facts(resume) of a value of any type: the exception it raises
\* or the facts it returns.
extract_all_facts_outcome(resume) ==
    IF extract_all_facts_raises(resume) # "none"
    THEN [ raised |-> extract_all_facts_raises(resume), returned |-> <<>> ]
    ELSE [ raised |-> "none", returned |-> extract_all_facts(PlainResume(resume)) ]

-----------------------------------------------------------------------------
(* Inputs that no schema validator has seen: a well-formed candidate with  *)
(* one value replaced or one section left out.                             *)

\* The values put where another was expected.
Oddities ==
    { PyNone, PyStr(<<>>), PyStr(Py), PyInt(0), PyInt(7), PyList(<<>>),
      PyList(<< PyStr(Py) >>), PyDict(<<>>) }

\* d with the value of key replaced
With(d, key, v) == PyDict((key :> v) @@ d.value)

\* d without key
Without(d, key) == PyDict([ k \in DOMAIN d.value \ { key } |-> d.value[k] ])

WellFormedJob ==
    PyDict([ company |-> PyStr(AcmeInc), job_title |-> PyStr(Manager),
             start_date |-> PyStr(D2020_01), end_date |-> PyStr(D2021_06) ])

WellFormedEdu ==
    PyDict([ institution |-> PyStr(StateCollege), degree |-> PyStr(BS),
             graduation_date |-> PyStr(D2019_05) ])

WellFormedProject ==
    PyDict([ project_name |-> PyStr(Ghost),
             technologies |-> PyList(<< PyStr(Py), PyStr(Rust) >>) ])

WellFormedCandidate ==
    PyDict([ work_experience |-> PyList(<< WellFormedJob >>),
             education |-> PyList(<< WellFormedEdu >>),
             skills |-> PyDict("Languages" :> PyStr(PyGo)),
             projects |-> PyList(<< WellFormedProject >>) ])

ListSections == { "work_experience", "education", "projects" }

EntryOf(section) ==
    CASE section = "work_experience" -> WellFormedJob
      [] section = "education"       -> WellFormedEdu
      [] section = "projects"        -> WellFormedProject

\* A truthy int in a date field is kept as a fact as it is: left out.
FieldOddities(field) ==
    IF field \in { "start_date", "end_date", "graduation_date" }
    THEN Oddities \ { PyInt(7) } ELSE Oddities

UnvalidatedCandidates ==
    { WellFormedCandidate }
    \cup Oddities
    \cup { Without(WellFormedCandidate, section) : section \in DOMAIN WellFormedCandidate.value }
    \cup { With(WellFormedCandidate, section, v) :
             section \in DOMAIN WellFormedCandidate.value, v \in Oddities }
    \cup { With(WellFormedCandidate, section, PyList(<< v >>)) :
             section \in ListSections, v \in Oddities }
    \cup UNION { UNION { { With(WellFormedCandidate, section,
                                PyList(<< With(EntryOf(section), field, v) >>)) :
                             v \in FieldOddities(field) } :
                         field \in DOMAIN EntryOf(section).value } :
                 section \in ListSections }
    \cup { With(WellFormedCandidate, "skills", PyDict("Languages" :> v)) : v \in Oddities }
    \cup { With(WellFormedCandidate, "projects",
                PyList(<< With(WellFormedProject, "technologies",
                               PyList(<< v, PyStr(Rust) >>)) >>)) : v \in Oddities }

-----------------------------------------------------------------------------
(* Specification SpecInput: one FactVerifier on the full master resume and *)
(* one call of the extractor or of the verifier on an unvalidated value.   *)

InitInput ==
    /\ RestIdle
    /\ unvalidated \in UnvalidatedCandidates
    /\ operation = "none"
    /\ raised = "none"
    /\ returned = <<>>
    /\ master_resume = FullMaster
    /\ master_facts = extract_all_facts(FullMaster)
    /\ tailored_resume = EmptyResume
    /\ tailored_facts = EmptyFacts
    /\ result = VerificationResult(TRUE, <<>>)
    /\ verify_calls = 0
    /\ feedback = <<>>
    /\ formatted = FALSE
    /\ raw_name = <<>>
    /\ norm_arg = <<>>
    /\ normalized = <<>>
    /\ norm_call = "none"
    /\ frames = <<>>
    /\ lists = <<>>

\* FactExtractor.extract_all_facts(unvalidated)
ExtractAllFactsUnvalidated ==
    /\ operation = "none"
    /\ operation' = "extract_all_facts"
    /\ raised' = extract_all_facts_outcome(unvalidated).raised
    /\ returned' = extract_all_facts_outcome(unvalidated).returned
    /\ UNCHANGED << unvalidated, verifier_vars, norm_vars, calls_vars, rest_vars >>

\* FactVerifier.verify_resume(unvalidated): the exception of the extraction
\* propagates, otherwise the steps run on the facts extracted.
VerifyResumeUnvalidated ==
    /\ operation = "none"
    /\ operation' = "verify_resume"
    /\ raised' = extract_all_facts_outcome(unvalidated).raised
    /\ IF raised' = "none"
       THEN returned' \in verify_resume_results(
                               extract_all_facts_outcome(unvalidated).returned, master_facts)
       ELSE returned' = <<>>
    /\ UNCHANGED << unvalidated, verifier_vars, norm_vars, calls_vars, rest_vars >>

NextInput ==
    \/ ExtractAllFactsUnvalidated
    \/ VerifyResumeUnvalidated

SpecInput == InitInput /\ [][NextInput]_vars

-----------------------------------------------------------------------------
(* Properties of the calls on unvalidated values (checked under SpecInput).*)

\* C13: extract_all_facts raises nothing for a record whose sections or
\* sub-fields are missing, null or malformed.
C13_ExtractionNeverRaises ==
    ( /\ operation = "extract_all_facts"
      /\ unvalidated.type = "dict" )
    => raised = "none"

\* A value of another shape where a sequence is expected, where a mapping is.
NotASequence(v) == v.type \in { "str", "int", "dict" }

NotAMapping(v) == v.type \in { "str", "int", "list", "NoneType" }

\* The candidate is not a mapping, or one of its list sections, its skills or
\* the technologies of one of its projects has another shape.
ShapeFault(candidate) ==
    \/ NotAMapping(candidate)
    \/ /\ candidate.type = "dict"
       /\ \/ \E section \in ListSections \cap DOMAIN candidate.value :
                NotASequence(candidate.value[section])
          \/ /\ "skills" \in DOMAIN candidate.value
             /\ candidate.value["skills"].type \in { "str", "int", "list" }
          \/ /\ "projects" \in DOMAIN candidate.value
             /\ candidate.value["projects"].type = "list"
             /\ \E project \in Range(candidate.value["projects"].value) :
                   /\ project.type = "dict"
                   /\ "technologies" \in DOMAIN project.value
                   /\ NotASequence(project.value["technologies"])

\* C14: verify_resume raises to its caller, and returns no result, when the
\* candidate is not a mapping or a field expected to be a sequence or a
\* mapping has another shape.
C14_ShapeFaultRaises ==
    ( /\ operation = "verify_resume"
      /\ ShapeFault(unvalidated) )
    => raised # "none"

-----------------------------------------------------------------------------
(* FactVerifier.verify_cover_letter.                                       *)

CoverLetterMinLength == 100

\* The check as it would be without .strip()
verify_cover_letter_untrimmed(cover_letter_text, resume) ==
    LET hallucinations ==
            IF ~Truthy(cover_letter_text)
               \/ Len(cover_letter_text.value) < CoverLetterMinLength
            THEN << Hallucination("content", <<"empty or too short">>,
                                  <<"Cover letter">>, "critical") >>
            ELSE <<>>
    IN  VerificationResult(Len(hallucinations) = 0, hallucinations)

\* verify_cover_letter(cover_letter_text, tailored_resume): the resume is not read
verify_cover_letter(cover_letter_text, resume) ==
    LET hallucinations ==
            IF ~Truthy(cover_letter_text)
               \/ Len(StrStrip(cover_letter_text.value)) < CoverLetterMinLength
            THEN << Hallucination("content", <<"empty or too short">>,
                                  <<"Cover letter">>, "critical") >>
            ELSE <<>>
    IN  VerificationResult(Len(hallucinations) = 0, hallucinations)

-----------------------------------------------------------------------------
(* Specification SpecCalls: callers that share one FactVerifier.  A        *)
(* verify_resume call advances one statement group at a time, so that the  *)
(* calls of different callers interleave; each call has its own frame.     *)

Callers == 1..MaxCallers

object_vars == << master_resume, master_facts >>

last_call_vars ==
    << tailored_resume, tailored_facts, result, verify_calls, feedback, formatted >>

\* The frame of a caller that is in no call.
IdleFrame ==
    [ op |-> "none", pc |-> "idle", tailored_resume |-> <<>>,
      cover_letter_text |-> PyNone, tailored_facts |-> <<>>,
      hallucinations |-> 0, result |-> <<>> ]

\* The list the calls would append to if the verifier kept one list for all.
SharedList(t) == SetMin(Callers)

\* The list that `hallucinations = []` binds in the call of caller t: a new
\* list, which no other call holds.
OwnList(t) == t

\* The candidates the callers pass.
CandidateA ==
    ("work_experience" :> << Job(Initech, Manager, D2020_01, D2021_06) >>)
    @@ ("skills" :> ("Tools" :> PyRust))

CandidateB ==
    ("education" :> << Edu(MIT, MS, D2019_05) >>)
    @@ ("projects" :> << Project(Ghost, << Rust >>) >>)

CallCandidates == { CandidateA, CandidateB }

Letters(n) == [ i \in 1..n |-> "x" ]

\* FactVerifier.__init__(master_resume); no caller is in a call.
InitCalls ==
    /\ RestIdle
    /\ master_resume \in MasterResumes
    /\ master_facts = extract_all_facts(master_resume)
    /\ frames = [ t \in Callers |-> IdleFrame ]
    /\ lists = [ t \in Callers |-> <<>> ]
    /\ tailored_resume = EmptyResume
    /\ tailored_facts = EmptyFacts
    /\ result = VerificationResult(TRUE, <<>>)
    /\ verify_calls = 0
    /\ feedback = <<>>
    /\ formatted = FALSE
    /\ raw_name = <<>>
    /\ norm_arg = <<>>
    /\ normalized = <<>>
    /\ norm_call = "none"
    /\ unvalidated = <<>>
    /\ operation = "none"
    /\ raised = "none"
    /\ returned = <<>>

\* verify_resume(tailored_resume) is entered: hallucinations = []
BeginVerifyResume(t) ==
    /\ frames[t].pc \in { "idle", "done" }
    /\ \E candidate \in CallCandidates :
          frames' = [ frames EXCEPT ![t] =
                        [ IdleFrame EXCEPT !.op = "verify_resume", !.pc = "extract",
                                           !.tailored_resume = candidate,
                                           !.hallucinations = OwnList(t) ] ]
    /\ lists' = [ lists EXCEPT ![OwnList(t)] = <<>> ]
    /\ UNCHANGED << object_vars, last_call_vars, norm_vars, input_vars, rest_vars >>

\* tailored_facts = self.extractor.extract_all_facts(tailored_resume)
ExtractTailoredFacts(t) ==
    /\ frames[t].pc = "extract"
    /\ frames' = [ frames EXCEPT ![t].pc = "companies",
                                 ![t].tailored_facts =
                                     extract_all_facts(frames[t].tailored_resume) ]
    /\ UNCHANGED << object_vars, lists, last_call_vars, norm_vars, input_vars, rest_vars >>

\* One loop of verify_resume: it appends, in the order it enumerates the set,
\* to the list of the call.
AppendAndAdvance(t, from, to, additions) ==
    /\ frames[t].pc = from
    /\ \E appended \in additions :
          lists' = [ lists EXCEPT ![frames[t].hallucinations] = @ \o appended ]
    /\ frames' = [ frames EXCEPT ![t].pc = to ]
    /\ UNCHANGED << object_vars, last_call_vars, norm_vars, input_vars, rest_vars >>

\* 1. Verify companies (CRITICAL)
VerifyCompanies(t) ==
    AppendAndAdvance(t, "companies", "institutions",
        { Appended(o, company_hallucination) :
            o \in Orders(invented_companies(frames[t].tailored_facts, master_facts)) })

\* 2. Verify institutions (CRITICAL)
VerifyInstitutions(t) ==
    AppendAndAdvance(t, "institutions", "skills",
        { Appended(o, institution_hallucination) :
            o \in Orders(invented_institutions(frames[t].tailored_facts, master_facts)) })

\* 3. Verify skills (WARNING - subset allowed)
VerifySkills(t) ==
    AppendAndAdvance(t, "skills", "project_names",
        { Appended(o, skill_hallucination) :
            o \in Orders(invented_skills(frames[t].tailored_facts, master_facts)) })

\* 4. Verify project names (WARNING)
VerifyProjectNames(t) ==
    AppendAndAdvance(t, "project_names", "technologies",
        { Appended(o, project_name_hallucination) :
            o \in Orders(invented_project_names(frames[t].tailored_facts, master_facts)) })

\* 5. Verify technologies (WARNING - subset allowed)
VerifyTechnologies(t) ==
    AppendAndAdvance(t, "technologies", "date_ranges",
        { Appended(o, technology_hallucination) :
            o \in Orders(invented_techs(frames[t].tailored_facts, master_facts)) })

\* 6. Verify date ranges (CRITICAL)
VerifyDateRanges(t) ==
    AppendAndAdvance(t, "date_ranges", "graduation_dates",
        { Appended(o, date_range_hallucination) :
            o \in Orders(altered_date_ranges(frames[t].tailored_facts, master_facts)) })

\* 7. Verify graduation dates (CRITICAL)
VerifyGraduationDates(t) ==
    AppendAndAdvance(t, "graduation_dates", "return",
        { Appended(o, graduation_date_hallucination) :
            o \in Orders(altered_graduation_dates(frames[t].tailored_facts, master_facts)) })

\* return VerificationResult(is_valid, hallucinations): the locals of the call
\* are gone, the caller holds the result and the candidate it passed.
ReturnVerificationResult(t) ==
    /\ frames[t].pc = "return"
    /\ frames' = [ frames EXCEPT ![t] =
                     [ IdleFrame EXCEPT
                         !.op = "verify_resume", !.pc = "done",
                         !.tailored_resume = frames[t].tailored_resume,
                         !.result = VerificationResult(
                                        is_valid_of(lists[frames[t].hallucinations]),
                                        lists[frames[t].hallucinations]) ] ]
    /\ lists' = [ lists EXCEPT ![frames[t].hallucinations] = <<>> ]
    /\ UNCHANGED << object_vars, last_call_vars, norm_vars, input_vars, rest_vars >>

NextCalls ==
    \E t \in Callers :
        \/ BeginVerifyResume(t)
        \/ ExtractTailoredFacts(t)
        \/ VerifyCompanies(t)
        \/ VerifyInstitutions(t)
        \/ VerifySkills(t)
        \/ VerifyProjectNames(t)
        \/ VerifyTechnologies(t)
        \/ VerifyDateRanges(t)
        \/ VerifyGraduationDates(t)
        \/ ReturnVerificationResult(t)

SpecCalls == InitCalls /\ [][NextCalls]_vars

-----------------------------------------------------------------------------
(* Specification SpecSession: one caller and one FactVerifier; each call   *)
(* of verify_resume, verify_cover_letter and format_hallucinations_for_    *)
(* retry runs from call to return, in any sequence.                        *)

Caller == 1

\* The candidates the caller passes.
SessionCandidates == CallCandidates \cup { FullMaster }

\* Cover letters: none, and 0, 1, 99, 100 or 101 letters (100 also with a
\* blank inside) after nothing, a blank or a newline and before nothing or a
\* blank.
CoverLetterTexts ==
    { PyNone }
    \cup { PyStr(lead \o body \o trail) :
             lead \in { <<>>, <<"\n">> },
             body \in { Letters(n) : n \in { 0, 1, CoverLetterMinLength - 1,
                                             CoverLetterMinLength,
                                             CoverLetterMinLength + 1 } }
                      \cup { Letters(49) \o <<" ">> \o Letters(50) },
             trail \in { <<>>, <<" ">> } }

InitSession ==
    /\ RestIdle
    /\ master_resume \in MasterResumes
    /\ master_facts = extract_all_facts(master_resume)
    /\ frames = [ t \in { Caller } |-> IdleFrame ]
    /\ lists = <<>>
    /\ tailored_resume = EmptyResume
    /\ tailored_facts = EmptyFacts
    /\ result = VerificationResult(TRUE, <<>>)
    /\ verify_calls = 0
    /\ feedback = <<>>
    /\ formatted = FALSE
    /\ raw_name = <<>>
    /\ norm_arg = <<>>
    /\ normalized = <<>>
    /\ norm_call = "none"
    /\ unvalidated = <<>>
    /\ operation = "none"
    /\ raised = "none"
    /\ returned = <<>>

\* verify_resume as it would be if it stored the facts it extracts on the
\* verifier.
SessionVerifyResumeStoringFacts ==
    /\ \E candidate \in SessionCandidates :
       \E res \in verify_resume_results(extract_all_facts(candidate), master_facts) :
          /\ frames' = [ frames EXCEPT ![Caller] =
                           [ IdleFrame EXCEPT !.op = "verify_resume", !.pc = "done",
                                              !.tailored_resume = candidate,
                                              !.result = res ] ]
          /\ master_facts' = extract_all_facts(candidate)
    /\ UNCHANGED << master_resume, lists, last_call_vars, norm_vars, input_vars, rest_vars >>

\* verify_resume(candidate), from call to return
SessionVerifyResume ==
    /\ \E candidate \in SessionCandidates :
       \E res \in verify_resume_results(extract_all_facts(candidate), master_facts) :
          frames' = [ frames EXCEPT ![Caller] =
                        [ IdleFrame EXCEPT !.op = "verify_resume", !.pc = "done",
                                           !.tailored_resume = candidate,
                                           !.result = res ] ]
    /\ UNCHANGED << object_vars, lists, last_call_vars, norm_vars, input_vars, rest_vars >>

\* verify_cover_letter(cover_letter_text, tailored_resume), from call to return
SessionVerifyCoverLetter ==
    /\ \E text \in CoverLetterTexts, candidate \in SessionCandidates :
          frames' = [ frames EXCEPT ![Caller] =
                        [ IdleFrame EXCEPT
                            !.op = "verify_cover_letter", !.pc = "done",
                            !.tailored_resume = candidate,
                            !.cover_letter_text = text,
                            !.result = verify_cover_letter(text, candidate) ] ]
    /\ UNCHANGED << object_vars, lists, last_call_vars, norm_vars, input_vars, rest_vars >>

\* format_hallucinations_for_retry(result) on the result the caller holds
SessionFormatForRetry ==
    /\ frames[Caller].op \in { "verify_resume", "verify_cover_letter" }
    /\ frames' = [ frames EXCEPT ![Caller] =
                     [ IdleFrame EXCEPT
                         !.op = "format_hallucinations_for_retry", !.pc = "done",
                         !.tailored_resume = frames[Caller].tailored_resume,
                         !.result = format_hallucinations_for_retry(frames[Caller].result) ] ]
    /\ UNCHANGED << object_vars, lists, last_call_vars, norm_vars, input_vars, rest_vars >>

NextSession ==
    \/ SessionVerifyResume
    \/ SessionVerifyCoverLetter
    \/ SessionFormatForRetry

SpecSession == InitSession /\ [][NextSession]_vars

-----------------------------------------------------------------------------
(* Properties of the session of one caller (checked under SpecSession).    *)

\* C15: no call of verify_resume, verify_cover_letter or
\* format_hallucinations_for_retry changes the master resume record or
\* master_facts, which stay the facts of the master resume computed at
\* construction, and the candidate record the caller holds stays as it was
\* passed.
C15_VerifierAndRecordsUnchanged ==
    [][ /\ master_resume' = master_resume
        /\ master_facts' = master_facts
        /\ master_facts' = extract_all_facts(master_resume')
        /\ frames'[Caller].op = "format_hallucinations_for_retry"
              => frames'[Caller].tailored_resume = frames[Caller].tailored_resume
      ]_vars

\* C15 happens: a candidate that differs from the master resume was verified
\* and its result formatted, and master_facts are the facts of the master.
C15_Witness ==
    /\ frames[Caller].op = "format_hallucinations_for_retry"
    /\ frames[Caller].result # <<>>
    /\ frames[Caller].tailored_resume \in CallCandidates
    /\ master_resume = FullMaster
    /\ master_facts = extract_all_facts(FullMaster)

\* The number of characters from the first to the last one that is not
\* whitespace.
TrimmedLength(text) ==
    LET inked == { i \in DOMAIN text : text[i] \notin Whitespace }
    IN  IF inked = {} THEN 0 ELSE SetMax(inked) - SetMin(inked) + 1

-----------------------------------------------------------------------------
(* Properties of the callers sharing a verifier (checked under SpecCalls). *)

IsPrefix(s, t) == Len(s) <= Len(t) /\ s = SubSeq(t, 1, Len(s))

\* C16: whatever the interleaving, a verify_resume call returns a result it
\* could return when run alone on its candidate, and while it runs its list
\* holds the beginning of such a result.
C16_ConcurrentCallsAsAlone ==
    \A t \in Callers :
        /\ ( frames[t].op = "verify_resume" /\ frames[t].pc = "done" )
           => frames[t].result
                 \in verify_resume_results(extract_all_facts(frames[t].tailored_resume),
                                           master_facts)
        /\ ( frames[t].op = "verify_resume" /\ frames[t].pc \notin { "done", "extract" } )
           => \E alone \in verify_resume_results(
                               extract_all_facts(frames[t].tailored_resume), master_facts) :
                 IsPrefix(lists[frames[t].hallucinations], alone.hallucinations)

\* C16 happens: two calls on different candidates are in progress, each has
\* appended to its list, and a third caller, if any, is anywhere.
C16_Witness ==
    \E t, u \in Callers :
        /\ t # u
        /\ frames[t].tailored_resume # frames[u].tailored_resume
        /\ frames[t].pc \in { "technologies", "date_ranges", "graduation_dates", "return" }
        /\ frames[u].pc \in { "skills", "project_names" }
        /\ lists[frames[t].hallucinations] # <<>>
        /\ lists[frames[u].hallucinations] # <<>>

-----------------------------------------------------------------------------
(* Properties of the feedback text (checked under Spec).                   *)

\* text.split("\n")
RECURSIVE LinesOf(_)
LinesOf(text) ==
    IF \A i \in DOMAIN text : text[i] # "\n" THEN << text >>
    ELSE LET cut == SetMin({ i \in DOMAIN text : text[i] = "\n" })
         IN  << SubSeq(text, 1, cut - 1) >> \o LinesOf(SubSeq(text, cut + 1, Len(text)))

IsBullet(line) == line # <<>> /\ line[1] = "  * "

\* The line that lists hallucination h, and the line that follows it.
BulletOf(h) ==
    <<"  * ", h.category, ": '">> \o h.claimed_value \o <<"' not found in master resume">>

ContextOf(h) == <<"    Context: ">> \o h.context

ClosingReminder ==
    << <<"CRITICAL: Only use facts that exist in the master resume.">>,
       <<"Do not invent companies, skills, dates, institutions, or education.">>,
       <<"Do not modify employment dates or graduation dates.">> >>

\* C21: the feedback of an invalid result states the number of
\* hallucinations, lists every critical one once under 'CRITICAL ERRORS' and
\* then every warning once under 'WARNINGS', each block in the order of
\* result.hallucinations and absent when empty, and ends with the closing
\* reminder; the hallucinations listed are as many as the number stated.
C21_FeedbackBlocks ==
    (formatted /\ ~result.is_valid) =>
        LET ls == LinesOf(feedback)
            critical == SelectSeq(result.hallucinations, LAMBDA h : h.severity = "critical")
            warnings == SelectSeq(result.hallucinations, LAMBDA h : h.severity = "warning")
            listed == critical \o warnings
            bullets == { i \in DOMAIN ls : IsBullet(ls[i]) }
            criticalHeads == { i \in DOMAIN ls : ls[i] = <<"CRITICAL ERRORS (must fix):">> }
            warningHeads == { i \in DOMAIN ls : ls[i] = <<"WARNINGS (should fix):">> }
            closing == Len(ls) - 4
        IN  /\ Len(ls) >= 11
            /\ ls[5] = <<"Found ">> \o Decimal(Len(result.hallucinations))
                          \o <<" hallucination(s):">>
            /\ Cardinality(bullets) = Len(result.hallucinations)
            /\ Cardinality(criticalHeads) = (IF critical = <<>> THEN 0 ELSE 1)
            /\ Cardinality(warningHeads) = (IF warnings = <<>> THEN 0 ELSE 1)
            /\ \A c \in criticalHeads : 5 < c /\ \A w \in warningHeads : c < w
            /\ \A i \in bullets :
                  LET k == Cardinality({ j \in bullets : j <= i })
                  IN  /\ k <= Len(listed)
                      /\ ls[i] = BulletOf(listed[k])
                      /\ ls[i + 1] = ContextOf(listed[k])
                      /\ i + 1 < closing
                      /\ IF k <= Len(critical)
                         THEN /\ \E c \in criticalHeads : c < i
                              /\ \A w \in warningHeads : i < w
                         ELSE \E w \in warningHeads : w < i
            /\ SubSeq(ls, closing, closing + 2) = ClosingReminder
            /\ ls[Len(ls) - 1] = Banner
            /\ ls[Len(ls)] = <<>>

\* C21 happens: a result with two critical hallucinations or more and two
\* warnings or more was formatted.
C21_Witness ==
    /\ formatted
    /\ ~result.is_valid
    /\ Len(SelectSeq(result.hallucinations, LAMBDA h : h.severity = "critical")) >= 2
    /\ Len(SelectSeq(result.hallucinations, LAMBDA h : h.severity = "warning")) >= 2
    /\ feedback # <<>>

-----------------------------------------------------------------------------
(* Properties of the date facts (checked under Spec).                      *)

\* C22: the date_ranges of a resume are the triples (normalised company, raw
\* start_date, raw end_date) of exactly the entries that hold all three; an
\* entry lacking one of them still gives its company and its job title.  So
\* the company of every date_range is one of companies and the institution of
\* every graduation date is one of institutions.
C22_DateRangeNeedsAllThree ==
    verify_calls >= 1 =>
      /\ tailored_facts.date_ranges =
            { << normalize_company_name(job.company), job.start_date, job.end_date >> :
                job \in EntriesWith(tailored_resume, "work_experience",
                                    { "company", "start_date", "end_date" }) }
      /\ \A job \in EntriesWith(tailored_resume, "work_experience", { "company" }) :
            normalize_company_name(job.company) \in tailored_facts.companies
      /\ \A job \in EntriesWith(tailored_resume, "work_experience", { "job_title" }) :
            normalize_text(job.job_title) \in tailored_facts.job_titles
      /\ \A facts \in { tailored_facts, master_facts } :
            /\ \A range \in facts.date_ranges : range[1] \in facts.companies
            /\ \A grad \in facts.graduation_dates : grad[1] \in facts.institutions

\* C22 happens: the candidate holds an entry with a company and no start
\* date, whose company is extracted without any date range, beside an entry
\* that gives a date range.
C22_Witness ==
    /\ verify_calls >= 1
    /\ \E job \in EntriesWith(tailored_resume, "work_experience", { "company" }) :
          /\ Get(job, "start_date", <<>>) = <<>>
          /\ normalize_company_name(job.company) \in tailored_facts.companies
          /\ \A range \in tailored_facts.date_ranges :
                range[1] # normalize_company_name(job.company)
    /\ tailored_facts.date_ranges # {}
    /\ tailored_facts.graduation_dates # {}

-----------------------------------------------------------------------------
(* Specification SpecDates: calls of FactExtractor.parse_date.             *)

\* Every variable of the verifier's specifications at rest.
FactChecksIdle ==
    /\ raw_name = <<>>
    /\ norm_arg = <<>>
    /\ normalized = <<>>
    /\ norm_call = "none"
    /\ master_resume = EmptyResume
    /\ master_facts = EmptyFacts
    /\ tailored_resume = EmptyResume
    /\ tailored_facts = EmptyFacts
    /\ result = VerificationResult(TRUE, <<>>)
    /\ verify_calls = 0
    /\ feedback = <<>>
    /\ formatted = FALSE
    /\ unvalidated = <<>>
    /\ operation = "none"
    /\ raised = "none"
    /\ returned = <<>>
    /\ frames = <<>>
    /\ lists = <<>>

\* The parts date strings are built from: years, months of two digits and of
\* one, the word for the current position, and characters of no date.
DateParts ==
    { <<"2","0","2","0">>, <<"9","9","9","9">>, <<"0","0","0","0">>,
      <<"-","0","1">>, <<"-","1","3">>, <<"-","0","0">>, <<"-","1">>,
      <<"p","r","e","s","e","n","t">>, <<"P","R","E","S","E","N","T">>,
      <<"P","r","e","s","e","n","t">>, <<"x">>, <<" ">> }

RECURSIVE DateStrings(_)
DateStrings(n) ==
    IF n = 0 THEN { <<>> }
    ELSE DateStrings(n - 1)
         \cup { s \o part : s \in DateStrings(n - 1), part \in DateParts }

InitDates ==
    /\ FactChecksIdle
    /\ TrackerIdle
    /\ DatesIdle
    /\ LatexFixIdle
    /\ ApiIdle
    /\ JobsIdle

\* parse_date(date_str)
ParseDate ==
    /\ \E date_str \in DateStrings(MaxDateParts) :
          /\ date_arg' = date_str
          /\ parsed' = parse_date(date_str)
    /\ UNCHANGED << verifier_vars, norm_vars, input_vars, calls_vars, latex_vars, api_vars,
                    job_vars,
                    tracker_vars >>

NextDates == ParseDate

SpecDates == InitDates /\ [][NextDates]_vars

\* (year, month) pairs compared as Python compares tuples.
PairBelow(a, b) == a[1] < b[1] \/ (a[1] = b[1] /\ a[2] < b[2])

\* C23: parse_date gives (year, month) for 'YYYY-MM', (year, 1) for 'YYYY',
\* (9999, 12) for 'present' in any case and (0, 0) for the empty string and
\* for every other string; no result is below (0, 0) and none is above
\* (9999, 12).  Surrounding whitespace is not counted as part of the string.
C23_ParseDateForms ==
    parsed # <<>> =>
        LET s == StrStrip(date_arg)
            isYear == Len(s) = 4 /\ DigitsAt(s, 1, 4)
            isYearMonth == Len(s) = 7 /\ DigitsAt(s, 1, 4) /\ s[5] = "-" /\ DigitsAt(s, 6, 2)
            isPresent == StrLower(s) = Present
        IN  /\ isYearMonth => parsed = << IntOf(SubSeq(s, 1, 4)), IntOf(SubSeq(s, 6, 7)) >>
            /\ isYear => parsed = << IntOf(s), 1 >>
            /\ isPresent => parsed = << 9999, 12 >>
            /\ ~(isYearMonth \/ isYear \/ isPresent) => parsed = << 0, 0 >>
            /\ ~PairBelow(parsed, << 0, 0 >>)
            /\ ~PairBelow(<< 9999, 12 >>, parsed)

-----------------------------------------------------------------------------
(* Properties of the verdict (checked under Spec).                         *)

\* C24: verify_resume returns is_valid = TRUE exactly when the candidate's
\* companies, institutions, date_ranges and graduation_dates are each a
\* subset of the master's: a date absent from the master never passes,
\* whether its company or institution is known or not.
C24_ValidIffCriticalFactsKnown ==
    verify_calls >= 1 =>
        ( result.is_valid <=>
            /\ tailored_facts.companies \subseteq master_facts.companies
            /\ tailored_facts.institutions \subseteq master_facts.institutions
            /\ tailored_facts.date_ranges \subseteq master_facts.date_ranges
            /\ tailored_facts.graduation_dates \subseteq master_facts.graduation_dates )

\* C24 happens: against the full master, a candidate whose companies and
\* institutions are all known holds a graduation date the master lacks, and
\* is not valid.
C24_Witness ==
    /\ verify_calls >= 1
    /\ master_resume = FullMaster
    /\ tailored_facts.companies \subseteq master_facts.companies
    /\ tailored_facts.institutions \subseteq master_facts.institutions
    /\ tailored_facts.date_ranges \subseteq master_facts.date_ranges
    /\ ~(tailored_facts.graduation_dates \subseteq master_facts.graduation_dates)
    /\ ~result.is_valid

\* The resume with the job_title of every work entry and the degree of every
\* education entry set to the given strings, everything else as it is.
Retitled(resume, job_title, degree) ==
    [ section \in DOMAIN resume |->
        IF section = "work_experience"
        THEN [ i \in DOMAIN resume[section] |->
                 [ field \in DOMAIN resume[section][i] \cup { "job_title" } |->
                     IF field = "job_title" THEN job_title
                     ELSE resume[section][i][field] ] ]
        ELSE IF section = "education"
        THEN [ i \in DOMAIN resume[section] |->
                 [ field \in DOMAIN resume[section][i] \cup { "degree" } |->
                     IF field = "degree" THEN degree
                     ELSE resume[section][i][field] ] ]
        ELSE resume[section] ]

\* A title and a degree no master holds, and none at all.
OtherTitles ==
    { << <<"C","h","i","e","f">>, <<"P","h","D">> >>, << <<>>, <<>> >> }

\* C25: the result of verify_resume does not depend on job titles and
\* degrees: the result returned for a candidate is one verify_resume returns
\* for the candidate with other job titles and degrees, and no hallucination
\* is about a job title or a degree.
C25_TitlesAndDegreesIgnored ==
    verify_calls >= 1 =>
        /\ \A other \in OtherTitles :
              result \in verify_resume_results(
                             extract_all_facts(Retitled(tailored_resume, other[1], other[2])),
                             master_facts)
        /\ \A h \in Range(result.hallucinations) :
              h.category \notin { "job_title", "degree" }

\* C25 happens: against the full master, a candidate with a job title the
\* master does not hold is given a result without any hallucination, and its
\* title was extracted.
C25_Witness ==
    /\ verify_calls >= 1
    /\ master_resume = FullMaster
    /\ tailored_resume # master_resume
    /\ \E title \in tailored_facts.job_titles : title \notin master_facts.job_titles
    /\ result = VerificationResult(TRUE, <<>>)

-----------------------------------------------------------------------------
(* Specification SpecLatexFix: one call of                                 *)
(* ResumeOptimizationPipeline.verify_and_fix_latex_resume.  The API calls   *)
(* return; what they return is any of the values below.                    *)

\* The values config.json may give latex_fix.max_retries.
RetrySettings == 0..MaxRetries

\* The LaTeX texts: the one handed in and the ones a fix call may answer.
InitialLatex == "initial"

FixedLatex == { "fix_a", "fix_b" }

\* What verify_latex_resume may return: verification_passed and the
\* severities of the issues of verification_result.
VerificationResults ==
    [ verification_passed : BOOLEAN,
      issues : { <<>>, <<"minor">>, <<"major">>, <<"critical">>,
                 <<"minor", "critical">> } ]

\* [issue for issue in issues if issue.get("severity") in ["major", "critical"]]
major_critical_issues(issues) ==
    SelectSeq(issues, LAMBDA severity : severity \in { "major", "critical" })

InitLatexFix ==
    /\ FactChecksIdle
    /\ TrackerIdle
    /\ DatesIdle
    /\ ApiIdle
    /\ JobsIdle
    /\ latex_fix_max_retries \in RetrySettings
    /\ fix_frame = <<>>

\* The frame at the call: latex_text = initial_latex_text, nothing verified.
FixFrameAtCall ==
    [ pc |-> "verify", attempt |-> 1, latex_text |-> InitialLatex,
      verification_result |-> "unbound", verified_text |-> "none",
      verifications |-> 0, rejections |-> 0, fix_calls |-> 0,
      returned |-> <<>>, raised |-> "none" ]

\* The call up to its first await: range(1, max_retries + 1) gives a first
\* attempt, or none, and then line 370 reads verification_result unbound.
CallVerifyAndFix ==
    /\ fix_frame = <<>>
    /\ fix_frame' = IF latex_fix_max_retries >= 1
                    THEN FixFrameAtCall
                    ELSE [ FixFrameAtCall EXCEPT !.pc = "raised", !.attempt = 0,
                                                 !.raised = "UnboundLocalError" ]
    /\ UNCHANGED << latex_fix_max_retries, verifier_vars, norm_vars, input_vars,
                    calls_vars, date_vars, api_vars, job_vars,
                    tracker_vars >>

\* await self.verify_latex_resume(latex_text, ...) and the branches after it,
\* up to a return or to the fix call.
VerifyLatex ==
    /\ fix_frame # <<>>
    /\ fix_frame.pc = "verify"
    /\ \E verification \in VerificationResults :
          LET verified == [ fix_frame EXCEPT
                              !.verification_result = verification,
                              !.verified_text = fix_frame.latex_text,
                              !.verifications = @ + 1 ]
              rejected == [ verified EXCEPT !.rejections = @ + 1 ]
          IN  fix_frame' =
                IF verification.verification_passed
                THEN [ verified EXCEPT
                         !.pc = "returned",
                         !.returned = << fix_frame.latex_text, TRUE, verification >> ]
                ELSE IF major_critical_issues(verification.issues) = <<>>
                THEN [ verified EXCEPT
                         !.pc = "returned",
                         !.returned = << fix_frame.latex_text, TRUE, verification >> ]
                ELSE IF fix_frame.attempt < latex_fix_max_retries
                THEN [ rejected EXCEPT !.pc = "fix" ]
                ELSE [ rejected EXCEPT
                         !.pc = "returned",
                         !.returned = << fix_frame.latex_text, FALSE, verification >> ]
    /\ UNCHANGED << latex_fix_max_retries, verifier_vars, norm_vars, input_vars,
                    calls_vars, date_vars, api_vars, job_vars,
                    tracker_vars >>

\* await self.call_poe_api(fix_prompt, ...), extract_latex_from_response, and
\* the next attempt of the loop.
FixLatex ==
    /\ fix_frame # <<>>
    /\ fix_frame.pc = "fix"
    /\ \E fixed \in FixedLatex :
          fix_frame' = [ fix_frame EXCEPT !.latex_text = fixed,
                                          !.fix_calls = @ + 1,
                                          !.attempt = @ + 1,
                                          !.pc = "verify" ]
    /\ UNCHANGED << latex_fix_max_retries, verifier_vars, norm_vars, input_vars,
                    calls_vars, date_vars, api_vars, job_vars,
                    tracker_vars >>

NextLatexFix ==
    \/ CallVerifyAndFix
    \/ VerifyLatex
    \/ FixLatex

SpecLatexFix == InitLatexFix /\ [][NextLatexFix]_vars

\* What the call keeps to when it runs and returns: at most max_retries
\* verifications and max_retries - 1 fixes; passed = TRUE exactly when the
\* last verification passed or reported nothing major or critical; passed =
\* FALSE only after max_retries rejections; the text returned is the text
\* the last verification examined.
FixCallContract ==
    /\ fix_frame.verifications <= latex_fix_max_retries
    /\ fix_frame.fix_calls + 1 <= latex_fix_max_retries
    /\ fix_frame.pc = "returned" =>
          /\ fix_frame.verifications >= 1
          /\ fix_frame.returned[1] = fix_frame.verified_text
          /\ fix_frame.returned[3] = fix_frame.verification_result
          /\ fix_frame.returned[2] =
                ( \/ fix_frame.verification_result.verification_passed
                  \/ major_critical_issues(fix_frame.verification_result.issues) = <<>> )
          /\ fix_frame.returned[2] = FALSE =>
                /\ fix_frame.verifications = latex_fix_max_retries
                /\ fix_frame.rejections = latex_fix_max_retries
          /\ fix_frame.rejections = fix_frame.verifications
                                      - (IF fix_frame.returned[2] THEN 1 ELSE 0)

\* C26: for any configured max_retries the call ends by returning a (latex,
\* passed, result) triple, never by raising, and keeps to the bounds on
\* verifications and fixes and to the meaning of passed and of the text
\* returned.
C26_RetriesBoundedTripleReturned ==
    fix_frame # <<>> =>
        /\ fix_frame.raised = "none"
        /\ FixCallContract

-----------------------------------------------------------------------------
(* Specification SpecApi: one call of                                       *)
(* ResumeOptimizationPipeline.call_poe_api.                                 *)

\* The responses a bot may stream to the end, and the exceptions an attempt
\* may raise.
Responses == { "response_a", "response_b" }

ApiErrors == { "TimeoutError", "ConnectionError", "BotError" }

\* 2**attempt
RECURSIVE PowerOfTwo(_)
PowerOfTwo(n) == IF n = 0 THEN 1 ELSE 2 * PowerOfTwo(n - 1)

InitApi ==
    /\ FactChecksIdle
    /\ TrackerIdle
    /\ DatesIdle
    /\ LatexFixIdle
    /\ JobsIdle
    /\ api_frame = <<>>

\* call_poe_api(prompt, bot_name, max_retries): the first attempt of
\* range(max_retries) is about to be made.
CallPoeApi ==
    /\ api_frame = <<>>
    /\ \E max_retries \in 1..MaxApiRetries :
          api_frame' = [ pc |-> "attempt", max_retries |-> max_retries, attempt |-> 0,
                         attempts |-> <<>>, waits |-> <<>>,
                         returned |-> <<>>, raised |-> <<>> ]
    /\ UNCHANGED << verifier_vars, norm_vars, input_vars, calls_vars, date_vars,
                    latex_vars, job_vars,
                    tracker_vars >>

\* An attempt streams the response to its end: return response_text.
AttemptSucceeds ==
    /\ api_frame # <<>>
    /\ api_frame.pc = "attempt"
    /\ \E response_text \in Responses :
          api_frame' = [ api_frame EXCEPT
                           !.attempts = Append(@, [ ok |-> TRUE, value |-> response_text ]),
                           !.returned = << response_text >>,
                           !.pc = "returned" ]
    /\ UNCHANGED << verifier_vars, norm_vars, input_vars, calls_vars, date_vars,
                    latex_vars, job_vars,
                    tracker_vars >>

\* The handler as it would be if the last failure fell through to the
\* `return ""` after the loop.
AttemptFailsReturningEmpty ==
    /\ api_frame # <<>>
    /\ api_frame.pc = "attempt"
    /\ \E e \in ApiErrors :
          LET failed == [ api_frame EXCEPT
                            !.attempts = Append(@, [ ok |-> FALSE, value |-> e ]) ]
          IN  api_frame' =
                IF api_frame.attempt = api_frame.max_retries - 1
                THEN [ failed EXCEPT !.returned = << "" >>, !.pc = "returned" ]
                ELSE [ failed EXCEPT !.waits = Append(@, PowerOfTwo(api_frame.attempt)),
                                     !.pc = "sleep" ]
    /\ UNCHANGED << verifier_vars, norm_vars, input_vars, calls_vars, date_vars,
                    latex_vars, job_vars,
                    tracker_vars >>

\* An attempt raises: `except Exception as e`, which re-raises after the last
\* attempt and otherwise starts asyncio.sleep(2**attempt).
AttemptFails ==
    /\ api_frame # <<>>
    /\ api_frame.pc = "attempt"
    /\ \E e \in ApiErrors :
          LET failed == [ api_frame EXCEPT
                            !.attempts = Append(@, [ ok |-> FALSE, value |-> e ]) ]
          IN  api_frame' =
                IF api_frame.attempt = api_frame.max_retries - 1
                THEN [ failed EXCEPT !.raised = << e >>, !.pc = "raised" ]
                ELSE [ failed EXCEPT !.waits = Append(@, PowerOfTwo(api_frame.attempt)),
                                     !.pc = "sleep" ]
    /\ UNCHANGED << verifier_vars, norm_vars, input_vars, calls_vars, date_vars,
                    latex_vars, job_vars,
                    tracker_vars >>

\* asyncio.sleep returns and the loop takes the next attempt.
SleepEnds ==
    /\ api_frame # <<>>
    /\ api_frame.pc = "sleep"
    /\ api_frame' = [ api_frame EXCEPT !.attempt = @ + 1, !.pc = "attempt" ]
    /\ UNCHANGED << verifier_vars, norm_vars, input_vars, calls_vars, date_vars,
                    latex_vars, job_vars,
                    tracker_vars >>

NextApi ==
    \/ CallPoeApi
    \/ AttemptSucceeds
    \/ AttemptFails
    \/ SleepEnds

SpecApi == InitApi /\ [][NextApi]_vars

\* C27: call_poe_api makes at most max_retries attempts; it returns the
\* response of the first attempt that succeeds, which is the last attempt it
\* makes; it has waited once after every failed attempt that another attempt
\* follows; and after max_retries failed attempts it raises the exception of
\* the last one and returns nothing.
C27_AttemptsBoundedLastErrorRaised ==
    api_frame # <<>> =>
        LET made == api_frame.attempts
            failed == { k \in DOMAIN made : ~made[k].ok }
        IN  /\ Len(made) <= api_frame.max_retries
            /\ \A k \in DOMAIN made : made[k].ok => k = Len(made)
            /\ api_frame.pc = "returned" <=> (made # <<>> /\ made[Len(made)].ok)
            /\ api_frame.pc = "returned" =>
                  /\ api_frame.returned = << made[Len(made)].value >>
                  /\ api_frame.raised = <<>>
            /\ Len(api_frame.waits) =
                  (IF api_frame.pc \in { "attempt", "returned" }
                   THEN Len(made) - Cardinality(DOMAIN made \ failed)
                   ELSE IF api_frame.pc = "sleep" THEN Len(made) ELSE Len(made) - 1)
            /\ \A w \in Range(api_frame.waits) : w >= 1
            /\ Cardinality(failed) = api_frame.max_retries <=> api_frame.pc = "raised"
            /\ api_frame.pc = "raised" =>
                  /\ api_frame.raised = << made[Len(made)].value >>
                  /\ api_frame.returned = <<>>

\* C27 happens: three attempts failed with different exceptions, two waits
\* were made, and the exception of the third was raised.
C27_Witness ==
    /\ api_frame # <<>>
    /\ api_frame.pc = "raised"
    /\ api_frame.max_retries = 3
    /\ Len(api_frame.attempts) = 3
    /\ api_frame.attempts[1].value # api_frame.attempts[3].value
    /\ api_frame.waits = << 1, 2 >>
    /\ api_frame.raised = << api_frame.attempts[3].value >>

-----------------------------------------------------------------------------
(* Specification SpecJobs: runs of the script on one applications.yaml.    *)
(* A run is split at its awaits and at the calls that may fail.            *)

JobIds == { "a", "b" }

JobStatuses == { "pending", "processed" }

\* What yaml.safe_load gives for applications.yaml: the list of its jobs, in
\* file order, or None for an empty file.  Nothing keeps job ids apart.
ApplicationFiles ==
    { PyNone }
    \cup { PyList(jobs) :
             jobs \in SeqsUpTo([ job_id : JobIds, status : JobStatuses ], MaxJobs) }

\* utils.find_pending_job: the position of the first job whose status is
\* 'pending', 0 for None.
find_pending_job(jobs) ==
    LET pending == { i \in DOMAIN jobs : jobs[i].status = "pending" }
    IN  IF pending = {} THEN 0 ELSE SetMin(pending)

\* utils.update_job_status: the first job of the file with the id is given
\* the status.
update_job_status(jobs, job_id, new_status) ==
    LET named == { i \in DOMAIN jobs : jobs[i].job_id = job_id }
    IN  IF named = {} THEN jobs
        ELSE [ jobs EXCEPT ![SetMin(named)].status = new_status ]

RunEnded == { "nothing", "completed", "raised" }

InitJobs ==
    /\ FactChecksIdle
    /\ TrackerIdle
    /\ DatesIdle
    /\ LatexFixIdle
    /\ ApiIdle
    /\ applications \in ApplicationFiles
    /\ run_frame = <<>>
    /\ runs = 0

\* The frame of run() when process_job is entered for the job at position.
RunFrame(loaded, position) ==
    [ pc |-> "generate", applications |-> loaded, pending_job |-> position,
      job_id |-> loaded.value[position].job_id,
      verification_passed |-> FALSE, pdf_compiled |-> FALSE,
      referral |-> "none", organized |-> "none",
      raised |-> "none" ]

\* run(): load_yaml, find_pending_job, and the entry of process_job.
StartRun ==
    /\ runs < MaxRuns
    /\ run_frame # <<>> => run_frame.pc \in RunEnded
    /\ runs' = runs + 1
    /\ run_frame' =
          IF ~Iterable(applications)
          THEN [ pc |-> "raised", applications |-> applications, pending_job |-> 0,
                 job_id |-> "none", verification_passed |-> FALSE,
                 pdf_compiled |-> FALSE, referral |-> "none", organized |-> "none",
                 raised |-> "TypeError" ]
          ELSE IF find_pending_job(applications.value) = 0
          THEN [ pc |-> "nothing", applications |-> applications, pending_job |-> 0,
                 job_id |-> "none", verification_passed |-> FALSE,
                 pdf_compiled |-> FALSE, referral |-> "none", organized |-> "none",
                 raised |-> "none" ]
          ELSE RunFrame(applications, find_pending_job(applications.value))
    /\ UNCHANGED << applications, verifier_vars, norm_vars, input_vars, calls_vars,
                    date_vars, latex_vars, api_vars,
                    tracker_vars >>

\* Steps 1 to 4b of process_job: the documents are generated, or one of the
\* API calls, validations or file writes raises.
GenerateDocuments ==
    /\ run_frame # <<>>
    /\ run_frame.pc = "generate"
    /\ \E error \in { "none", "Exception" } :
          run_frame' = IF error = "none"
                       THEN [ run_frame EXCEPT !.pc = "verify" ]
                       ELSE [ run_frame EXCEPT !.pc = "raised", !.raised = error ]
    /\ UNCHANGED << applications, runs, verifier_vars, norm_vars, input_vars,
                    calls_vars, date_vars, latex_vars, api_vars,
                    tracker_vars >>

\* Step 4c: await verify_and_fix_latex_resume; `if not verification_passed:
\* raise ValueError`.
VerifyAndFixLatexResume ==
    /\ run_frame # <<>>
    /\ run_frame.pc = "verify"
    /\ \E verification_passed \in BOOLEAN :
          run_frame' = IF verification_passed
                       THEN [ run_frame EXCEPT !.pc = "compile",
                                               !.verification_passed = TRUE ]
                       ELSE [ run_frame EXCEPT !.pc = "raised",
                                               !.raised = "ValueError" ]
    /\ UNCHANGED << applications, runs, verifier_vars, norm_vars, input_vars,
                    calls_vars, date_vars, latex_vars, api_vars,
                    tracker_vars >>

\* Step 4d: compile_latex_to_pdf; a failure is re-raised.
CompileLatexToPdf ==
    /\ run_frame # <<>>
    /\ run_frame.pc = "compile"
    /\ \E error \in { "none", "Exception" } :
          run_frame' = IF error = "none"
                       THEN [ run_frame EXCEPT !.pc = "referral", !.pdf_compiled = TRUE ]
                       ELSE [ run_frame EXCEPT !.pc = "raised", !.raised = error ]
    /\ UNCHANGED << applications, runs, verifier_vars, norm_vars, input_vars,
                    calls_vars, date_vars, latex_vars, api_vars,
                    tracker_vars >>

\* Step 4d-ii as it would be if a failure of the referral version were
\* re-raised.
GenerateReferralResumeOrRaise ==
    /\ run_frame # <<>>
    /\ run_frame.pc = "referral"
    /\ \E outcome \in { "done", "failed" } :
          run_frame' = IF outcome = "done"
                       THEN [ run_frame EXCEPT !.pc = "organize", !.referral = outcome ]
                       ELSE [ run_frame EXCEPT !.pc = "raised", !.referral = outcome,
                                               !.raised = "Exception" ]
    /\ UNCHANGED << applications, runs, verifier_vars, norm_vars, input_vars,
                    calls_vars, date_vars, latex_vars, api_vars,
                    tracker_vars >>

\* Step 4d-ii: the referral version; `except Exception` prints and goes on.
GenerateReferralResume ==
    /\ run_frame # <<>>
    /\ run_frame.pc = "referral"
    /\ \E outcome \in { "done", "failed" } :
          run_frame' = [ run_frame EXCEPT !.pc = "organize", !.referral = outcome ]
    /\ UNCHANGED << applications, runs, verifier_vars, norm_vars, input_vars,
                    calls_vars, date_vars, latex_vars, api_vars,
                    tracker_vars >>

\* Step 4e: organize_output_files; `except Exception` prints and goes on.
OrganizeOutputFiles ==
    /\ run_frame # <<>>
    /\ run_frame.pc = "organize"
    /\ \E outcome \in { "done", "failed" } :
          run_frame' = [ run_frame EXCEPT !.pc = "update", !.organized = outcome ]
    /\ UNCHANGED << applications, runs, verifier_vars, norm_vars, input_vars,
                    calls_vars, date_vars, latex_vars, api_vars,
                    tracker_vars >>

\* Step 5: update_job_status("applications.yaml", job_id, "processed"), which
\* loads the file again and saves it; process_job and run() return.
UpdateJobStatus ==
    /\ run_frame # <<>>
    /\ run_frame.pc = "update"
    /\ applications' = PyList(update_job_status(applications.value, run_frame.job_id,
                                                "processed"))
    /\ run_frame' = [ run_frame EXCEPT !.pc = "completed" ]
    /\ UNCHANGED << runs, verifier_vars, norm_vars, input_vars, calls_vars,
                    date_vars, latex_vars, api_vars,
                    tracker_vars >>

NextJobs ==
    \/ StartRun
    \/ GenerateDocuments
    \/ VerifyAndFixLatexResume
    \/ CompileLatexToPdf
    \/ GenerateReferralResume
    \/ OrganizeOutputFiles
    \/ UpdateJobStatus

SpecJobs == InitJobs /\ [][NextJobs]_vars

\* C28: the file changes only in step 5, after the verification passed and
\* the regular PDF compiled; a run whose verification or compilation fails
\* ends with an exception and leaves its job pending; a failure of the
\* referral version or of the file organization raises nothing and the run
\* goes on to step 5 as it does without the failure.
C28_ProcessedOnlyAfterVerifiedAndCompiled ==
    [][ /\ applications' # applications =>
              /\ run_frame # <<>>
              /\ run_frame.pc = "update"
              /\ run_frame.verification_passed
              /\ run_frame.pdf_compiled
              /\ run_frame'.pc = "completed"
        /\ run_frame'.pc = "raised" =>
              /\ run_frame'.raised # "none"
              /\ run_frame'.referral = "none"
              /\ run_frame'.organized = "none"
              /\ applications' = run_frame'.applications
              /\ run_frame'.pending_job > 0 =>
                    applications'.value[run_frame'.pending_job].status = "pending"
        /\ ( /\ run_frame # <<>>
             /\ run_frame.pc \in { "verify", "compile" }
             /\ run_frame'.pc # "raised" ) =>
              /\ run_frame'.verification_passed
              /\ run_frame.pc = "compile" => run_frame'.pdf_compiled
        /\ run_frame'.pc = "completed" =>
              /\ run_frame'.referral \in { "done", "failed" }
              /\ run_frame'.organized \in { "done", "failed" }
              /\ applications' = PyList(update_job_status(run_frame'.applications.value,
                                                          run_frame'.job_id, "processed"))
      ]_vars

\* C28 happens: the referral version and the file organization both failed,
\* the run completed, and its job, pending when the run began, is processed.
C28_Witness ==
    /\ run_frame # <<>>
    /\ run_frame.pc = "completed"
    /\ run_frame.referral = "failed"
    /\ run_frame.organized = "failed"
    /\ run_frame.applications.value[run_frame.pending_job].status = "pending"
    /\ applications.value[run_frame.pending_job].status = "processed"

\* C29: a run processes the first pending job of the file and no other, and
\* a run that finds no pending job does nothing; after a run that completed,
\* its job is no longer pending and every other job is as it was.
C29_FirstPendingOneByOne ==
    run_frame # <<>> =>
        /\ run_frame.pending_job = 0 =>
              /\ run_frame.pc = "nothing"
              /\ applications = run_frame.applications
        /\ run_frame.pending_job > 0 =>
              /\ run_frame.applications.value[run_frame.pending_job].status = "pending"
              /\ \A i \in 1..(run_frame.pending_job - 1) :
                    run_frame.applications.value[i].status # "pending"
              /\ \A i \in DOMAIN applications.value :
                    i # run_frame.pending_job =>
                       applications.value[i] = run_frame.applications.value[i]
        /\ run_frame.pc = "completed" =>
              applications.value[run_frame.pending_job].status # "pending"

(***************************************************************************)
(* Specification SpecTracker: the operations of ProgressTracker            *)
(* (progress_tracker.py) called in any order on registered and on          *)
(* unregistered job ids.  A JobProgress is a record; its timestamps and    *)
(* its job_title and company_name take no part in the counters and are     *)
(* left out.                                                               *)
(***************************************************************************)

\* PIPELINE_STEPS has twelve steps; JobProgress.total_steps is their number.
PipelineSteps == 12

TrackedJobIds == { "a", "b" }

StepNames == { "Resume Generation", "Cover Letter Generation" }

\* "latex" is a retry_type that record_retry does not know.
RetryTypes == { "api", "validation", "quality", "latex" }

FailureReasons == { "timeout" }

StepIndexes == { 0, 5 }

ErrorMessages == { "boom" }

\* JobProgress(...) as add_job makes it.
JobProgress ==
    [ current_step |-> 0, status |-> "running", error |-> PyNone,
      total_retries |-> 0, retry_by_step |-> << >>,
      api_call_retries |-> 0, validation_retries |-> 0, quality_retries |-> 0 ]

\* StepRetryInfo(step_name=step_name)
StepRetryInfo == [ total_attempts |-> 0, failures |-> << >> ]

\* d[k] = v of a Python dict d
DictSet(d, k, v) == [ x \in DOMAIN d \cup { k } |-> IF x = k THEN v ELSE d[x] ]

\* A variant of record_retry that makes a new StepRetryInfo at every call.
record_retry_resetting_step(job, step_name, failure_reason, retry_type) ==
    LET counted == [ job EXCEPT
                       !.total_retries = @ + 1,
                       !.api_call_retries = IF retry_type = "api" THEN @ + 1 ELSE @,
                       !.validation_retries = IF retry_type = "validation" THEN @ + 1 ELSE @,
                       !.quality_retries = IF retry_type = "quality" THEN @ + 1 ELSE @ ]
    IN  [ counted EXCEPT !.retry_by_step =
            DictSet(@, step_name, [ total_attempts |-> 1, failures |-> << failure_reason >> ]) ]

\* The body of record_retry once the job is found.
record_retry(job, step_name, failure_reason, retry_type) ==
    LET counted == [ job EXCEPT
                       !.total_retries = @ + 1,
                       !.api_call_retries = IF retry_type = "api" THEN @ + 1 ELSE @,
                       !.validation_retries = IF retry_type = "validation" THEN @ + 1 ELSE @,
                       !.quality_retries = IF retry_type = "quality" THEN @ + 1 ELSE @ ]
        step_info == IF step_name \in DOMAIN counted.retry_by_step
                     THEN counted.retry_by_step[step_name]
                     ELSE StepRetryInfo
    IN  [ counted EXCEPT !.retry_by_step =
            DictSet(@, step_name,
                    [ total_attempts |-> step_info.total_attempts + 1,
                      failures |-> Append(step_info.failures, failure_reason) ]) ]

InitTracker ==
    /\ FactChecksIdle
    /\ DatesIdle
    /\ LatexFixIdle
    /\ ApiIdle
    /\ JobsIdle
    /\ tracker_jobs = << >>
    /\ tracker_call = << >>
    /\ tracker_calls = 0

TrackerRest ==
    /\ tracker_calls < MaxTrackerCalls
    /\ tracker_calls' = tracker_calls + 1
    /\ UNCHANGED << verifier_vars, norm_vars, input_vars, calls_vars, date_vars, latex_vars,
                    api_vars, job_vars >>

AddJob ==
    /\ \E job_id \in TrackedJobIds :
          /\ tracker_call' = [ op |-> "add_job", job_id |-> job_id ]
          /\ tracker_jobs' = DictSet(tracker_jobs, job_id, JobProgress)
    /\ TrackerRest

UpdateStep ==
    /\ \E job_id \in TrackedJobIds, step_index \in StepIndexes :
          /\ tracker_call' = [ op |-> "update_step", job_id |-> job_id,
                               step_index |-> step_index ]
          /\ IF job_id \notin DOMAIN tracker_jobs
             THEN tracker_jobs' = tracker_jobs
             ELSE tracker_jobs' = [ tracker_jobs EXCEPT ![job_id].current_step = step_index ]
    /\ TrackerRest

RecordRetry ==
    /\ \E job_id \in TrackedJobIds, step_name \in StepNames,
          failure_reason \in FailureReasons, retry_type \in RetryTypes :
          /\ tracker_call' = [ op |-> "record_retry", job_id |-> job_id,
                               step_name |-> step_name, retry_type |-> retry_type ]
          /\ IF job_id \notin DOMAIN tracker_jobs
             THEN tracker_jobs' = tracker_jobs
             ELSE tracker_jobs' =
                    [ tracker_jobs EXCEPT ![job_id] =
                        record_retry(@, step_name, failure_reason, retry_type) ]
    /\ TrackerRest

MarkCompleted ==
    /\ \E job_id \in TrackedJobIds :
          /\ tracker_call' = [ op |-> "mark_completed", job_id |-> job_id ]
          /\ IF job_id \notin DOMAIN tracker_jobs
             THEN tracker_jobs' = tracker_jobs
             ELSE tracker_jobs' = [ tracker_jobs EXCEPT ![job_id].status = "completed",
                                                        ![job_id].current_step = PipelineSteps ]
    /\ TrackerRest

MarkFailed ==
    /\ \E job_id \in TrackedJobIds, error \in ErrorMessages :
          /\ tracker_call' = [ op |-> "mark_failed", job_id |-> job_id ]
          /\ IF job_id \notin DOMAIN tracker_jobs
             THEN tracker_jobs' = tracker_jobs
             ELSE tracker_jobs' = [ tracker_jobs EXCEPT ![job_id].status = "failed",
                                                        ![job_id].error = error ]
    /\ TrackerRest

NextTracker == AddJob \/ UpdateStep \/ RecordRetry \/ MarkCompleted \/ MarkFailed

SpecTracker == InitTracker /\ [][NextTracker]_vars

RECURSIVE SumAttempts(_, _)
\* The sum of total_attempts over the entries of retry_by_step named in steps.
SumAttempts(retry_by_step, steps) ==
    IF steps = {} THEN 0
    ELSE LET s == CHOOSE x \in steps : TRUE
         IN  retry_by_step[s].total_attempts + SumAttempts(retry_by_step, steps \ { s })

\* The three counter relations of one JobProgress.
CountersAgree(job) ==
    /\ job.total_retries = SumAttempts(job.retry_by_step, DOMAIN job.retry_by_step)
    /\ \A s \in DOMAIN job.retry_by_step :
          job.retry_by_step[s].total_attempts = Len(job.retry_by_step[s].failures)
    /\ job.api_call_retries + job.validation_retries + job.quality_retries
          =< job.total_retries

\* C30: after every operation of the tracker, each registered job has
\* total_retries equal to the sum of total_attempts over its retry_by_step,
\* each step's total_attempts equal to the number of its failure reasons, and
\* api + validation + quality retries at most total_retries; an update_step,
\* record_retry, mark_completed or mark_failed naming a job id that is not
\* registered leaves the tracker's jobs as they were.
C30_TrackerCountersAgree ==
    [][ /\ \A job_id \in DOMAIN tracker_jobs' : CountersAgree(tracker_jobs'[job_id])
        /\ ( /\ tracker_call'.op # "add_job"
             /\ tracker_call'.job_id \notin DOMAIN tracker_jobs )
           => tracker_jobs' = tracker_jobs ]_vars

\* A job with retries of a known and of an unknown type on two steps, while
\* the last call recorded a retry for a job id that is not registered.
C30_Witness ==
    /\ tracker_call # << >>
    /\ tracker_call.op = "record_retry"
    /\ tracker_call.job_id \notin DOMAIN tracker_jobs
    /\ \E job_id \in DOMAIN tracker_jobs :
          LET job == tracker_jobs[job_id]
          IN  /\ job.total_retries > 1
              /\ DOMAIN job.retry_by_step = StepNames
              /\ job.api_call_retries + job.validation_retries + job.quality_retries
                    < job.total_retries
              /\ job.api_call_retries > 0

====
